---- MODULE Spec2Model ----
(***************************************************************************)
(* State-machine model of a2a-cronos-x402: the service registry of         *)
(* X402Server (server.ts), the ledger reads of ContractReader              *)
(* (contract-reader.ts), the hook-data codec (hook-data-codec.ts) and the  *)
(* authorization preparer of X402Client (client.ts).                       *)
(*                                                                         *)
(* JavaScript values are modelled as follows.  A string field that is      *)
(* absent or empty is "" (both are falsy for the `!x` tests of the code);  *)
(* an optional field that the caller did not supply is "absent" (strings)  *)
(* or 0 (chainId).  `undefined` results are the record Undefined.          *)
(***************************************************************************)
EXTENDS Integers, Sequences, FiniteSets, TLC

VARIABLES
    serverNetwork,  \* X402Server.config.network, fixed at construction
    services,       \* X402Server.services: the Map, as its entries in insertion order
    pending,        \* addService calls suspended at `await getSettlementRouter`, in invocation order
    resp,           \* outcome of the addService call that settled most recently
    cpc,            \* codec harness: which HookDataCodec function ran last
    cin,            \* codec harness: the arguments (hookType, params)
    cout,           \* codec harness: what validate, encode and decode returned
    ppc,            \* prepareTransaction: where the call is
    pin,            \* prepareTransaction: its TransactionParams and the clock
    plocal,         \* prepareTransaction: its local variables
    pcalls,         \* the ledger reads the ContractReader has sent, in order
    pout,           \* prepareTransaction: the PreparedTransaction or the error
    spc,            \* submitTransaction: where the call is
    sin,            \* submitTransaction: prepared, signature, signerPrivateKey
    slocal,         \* submitTransaction: its signer, contract and receipt
    scalls,         \* the settlement calls sent to the ledger, in order
    sout,           \* submitTransaction / validateSignature: the result or the error
    reply,          \* the last answer of a read of the server: a method's or a route's
    dpc,            \* discoverAll: where the call is
    din,            \* discoverAll: serverUrls
    dcalls,         \* discoverAll: the discover call of each url, in the order of serverUrls
    dout,           \* discoverAll: the results or the rejection
    rpc,            \* a ContractReader method called on its own: where the call is
    rin,            \* that call's method and address
    rout            \* that call's return value or error

regVars == <<serverNetwork, services, pending, resp>>
codecVars == <<cpc, cin, cout>>
prepVars == <<ppc, pin, plocal, pcalls, pout>>
submitVars == <<spc, sin, slocal, scalls, sout>>
serveVars == <<reply>>
discVars == <<dpc, din, dcalls, dout>>
readerVars == <<rpc, rin, rout>>
vars == <<serverNetwork, services, pending, resp, cpc, cin, cout,
          ppc, pin, plocal, pcalls, pout, spc, sin, slocal, scalls, sout,
          reply, dpc, din, dcalls, dout, rpc, rin, rout>>

(***************************************************************************)
(* Bounds of the registry model.                                           *)
(***************************************************************************)
MaxInFlight == 2

(***************************************************************************)
(* Bound of the codec model: the longest split list tried.                 *)
(***************************************************************************)
MaxSplits == 2

Undefined == [undefined |-> TRUE]

(***************************************************************************)
(* shared/network-config.ts                                                *)
(***************************************************************************)
CronosNetworks == {"cronos", "cronos-testnet"}

NETWORK_CONFIGS ==
    [n \in CronosNetworks |->
        IF n = "cronos"
        THEN [chainId |-> 25, rpcUrl |-> "https://evm.cronos.org",
              usdcAddress |-> "0xc21223249CA28397B4B6541dfFaEcC539BfF0c59",
              blockExplorer |-> "https://explorer.cronos.org"]
        ELSE [chainId |-> 338, rpcUrl |-> "https://evm-t3.cronos.org",
              usdcAddress |-> "0xc01efAaF7C5C61bEbFAeb358E1161b537b8bC0e0",
              blockExplorer |-> "https://explorer.cronos.org/testnet"]]

\* NetworkConfig.getConfig(network) without an rpcUrl override
GetConfig(network) == NETWORK_CONFIGS[network]

(***************************************************************************)
(* The inputs of addService.  X402ServiceConfig is a plain object: besides *)
(* its declared fields a caller can put usdcAddress and chainId on it,     *)
(* which the spread of line 90 copies.                                     *)
(***************************************************************************)
HookAddresses == {"0xHookA", "0xHookB"}

\* the router each deployed hook contract declares
RouterOf(hookAddress) == IF hookAddress = "0xHookA" THEN "0xRouterA" ELSE "0xRouterB"

CallerExtras ==
    { [settlementRouter |-> "absent",   usdcAddress |-> "absent",       chainId |-> 0],
      [settlementRouter |-> "absent",   usdcAddress |-> "0xSpoofToken", chainId |-> 1] }

ServiceConfigs ==
    { [id |-> i, title |-> "Service", hookType |-> t, hookAddress |-> h,
       network |-> n, settlementRouter |-> x.settlementRouter,
       usdcAddress |-> x.usdcAddress, chainId |-> x.chainId] :
        i \in {"", "svc-1", "svc-2"}, t \in {"", "nft-mint"},
        h \in HookAddresses \cup {""}, n \in {"", "cronos"}, x \in CallerExtras }

(***************************************************************************)
(* JavaScript Map, kept as the sequence of its entries: set() on a present *)
(* key replaces the value in place, on a new key appends.                  *)
(***************************************************************************)
MapHas(m, k) == \E i \in DOMAIN m : m[i].key = k

MapGet(m, k) ==
    IF MapHas(m, k) THEN m[CHOOSE i \in DOMAIN m : m[i].key = k].value ELSE Undefined

\* mutant: a present key is deleted and set again, which moves it to the end
MapSet_MoveToEnd(m, k, v) ==
    LET kept == {i \in DOMAIN m : m[i].key # k}
        before(i) == Cardinality({j \in kept : j < i})
        rest == [n \in 1..Cardinality(kept) |->
                    m[CHOOSE i \in kept : before(i) = n - 1]]
    IN Append(rest, [key |-> k, value |-> v])

\* mutant: the map is cleared before the set
MapSet_Clear(m, k, v) == <<[key |-> k, value |-> v]>>

\* mutant: an array push instead of a keyed set
MapSet_Push(m, k, v) == Append(m, [key |-> k, value |-> v])

MapSet(m, k, v) ==
    IF MapHas(m, k)
    THEN [i \in DOMAIN m |-> IF m[i].key = k THEN [key |-> k, value |-> v] ELSE m[i]]
    ELSE Append(m, [key |-> k, value |-> v])

MapValues(m) == [i \in DOMAIN m |-> m[i].value]

(***************************************************************************)
(* shared/contract-reader.ts: getSettlementRouter.                         *)
(*                                                                         *)
(* The ledger is outside the program: each read meets one of four          *)
(* conditions.  What `await hook.settlementRouter()` does under each is    *)
(* the behaviour of the ethers v6 Contract the code calls (the code uses   *)
(* the v6 API: ethers.JsonRpcProvider, ethers.AbiCoder, ethers.parseUnits):*)
(*   deployed   the declared router address is returned                    *)
(*   revert     eth_call is rejected, Error "... code=CALL_EXCEPTION ..."  *)
(*   nocode     eth_call answers "0x"; decoding the result throws          *)
(*              Error "could not decode result data ... code=BAD_DATA ..." *)
(*   transport  the RPC request fails, Error "... code=SERVER_ERROR ..."   *)
(***************************************************************************)
LedgerConditions == {"deployed", "nocode", "revert", "transport"}

MsgCallException == "execution reverted (action=\"call\", code=CALL_EXCEPTION)"
MsgBadData       == "could not decode result data (value=\"0x\", code=BAD_DATA)"
MsgServerError   == "server response 502 Bad Gateway (code=SERVER_ERROR)"

\* hook.settlementRouter() on `hookAddress` under ledger condition `cond`
HookSettlementRouterCall(hookAddress, cond) ==
    CASE cond = "deployed"  -> [threw |-> FALSE, isError |-> FALSE, message |-> "",
                                value |-> RouterOf(hookAddress)]
      [] cond = "revert"    -> [threw |-> TRUE, isError |-> TRUE,
                                message |-> MsgCallException, value |-> ""]
      [] cond = "nocode"    -> [threw |-> TRUE, isError |-> TRUE,
                                message |-> MsgBadData, value |-> ""]
      [] cond = "transport" -> [threw |-> TRUE, isError |-> TRUE,
                                message |-> MsgServerError, value |-> ""]

\* error.message.includes('call revert') || error.message.includes('CALL_EXCEPTION')
MessageNamesCallException(message) == message \in {MsgCallException}

\* mutant: the catch block swallows the failure and resolves with no address
GetSettlementRouter_Swallow(hookAddress, cond) ==
    LET r == HookSettlementRouterCall(hookAddress, cond) IN
    [ok |-> TRUE, value |-> r.value, error |-> "", address |-> ""]

\* the result of getSettlementRouter: a resolved address or a rejection
GetSettlementRouter(hookAddress, cond) ==
    LET r == HookSettlementRouterCall(hookAddress, cond) IN
    IF ~r.threw
    THEN [ok |-> TRUE, value |-> r.value, error |-> "", address |-> ""]
    ELSE IF r.isError
         THEN IF MessageNamesCallException(r.message)
              THEN [ok |-> FALSE, value |-> "", error |-> "ContractNotFoundError",
                    address |-> hookAddress]
              ELSE [ok |-> FALSE, value |-> "", error |-> "NetworkError", address |-> ""]
         ELSE [ok |-> FALSE, value |-> "", error |-> "thrown", address |-> ""]

(***************************************************************************)
(* server.ts: X402Server.addService                                        *)
(***************************************************************************)
RequiredFields == <<"id", "hookAddress", "hookType", "network">>

\* mutant: validation stops at the first missing field
MissingFields_FirstOnly(serviceConfig) ==
    IF serviceConfig.id = "" THEN <<"id">>
    ELSE IF serviceConfig.hookAddress = "" THEN <<"hookAddress">>
    ELSE IF serviceConfig.hookType = "" THEN <<"hookType">>
    ELSE IF serviceConfig.network = "" THEN <<"network">>
    ELSE <<>>

\* lines 70-74: one push per falsy required field, in this order
MissingFields(serviceConfig) ==
    (IF serviceConfig.id = "" THEN <<"id">> ELSE <<>>)
    \o (IF serviceConfig.hookAddress = "" THEN <<"hookAddress">> ELSE <<>>)
    \o (IF serviceConfig.hookType = "" THEN <<"hookType">> ELSE <<>>)
    \o (IF serviceConfig.network = "" THEN <<"network">> ELSE <<>>)

\* mutant: the spread comes last, so fields the caller supplied win
BuildService_CallerWins(serviceConfig, settlementRouter, networkSettings) ==
    [serviceConfig EXCEPT
        !.settlementRouter = IF @ = "absent" THEN settlementRouter ELSE @,
        !.usdcAddress = IF @ = "absent" THEN networkSettings.usdcAddress ELSE @,
        !.chainId = IF @ = 0 THEN networkSettings.chainId ELSE @]

\* lines 89-94: the spread of serviceConfig, then the three resolved fields over it
BuildService(serviceConfig, settlementRouter, networkSettings) ==
    [serviceConfig EXCEPT !.settlementRouter = settlementRouter,
                          !.usdcAddress = networkSettings.usdcAddress,
                          !.chainId = networkSettings.chainId]

NoConfig ==
    [id |-> "", title |-> "", hookType |-> "", hookAddress |-> "", network |-> "",
     settlementRouter |-> "absent", usdcAddress |-> "absent", chainId |-> 0]

NoResp ==
    [kind |-> "none", missingFields |-> <<>>, absent |-> {}, address |-> "",
     cond |-> "", config |-> NoConfig, router |-> "", reads |-> 0,
     replaced |-> FALSE, pos |-> 0, left |-> 0, rival |-> "none"]

\* lines 68-81 and the call of line 84: validation, then the read is issued and
\* the call suspends.  `absent` records which required fields the caller left out.
AddServiceCall(serviceConfig) ==
    LET missingFields == MissingFields(serviceConfig) IN
    /\ UNCHANGED <<codecVars, prepVars, submitVars, discVars, readerVars>>
    /\ IF Len(missingFields) > 0
       THEN /\ resp' = [NoResp EXCEPT
                          !.kind = "ConfigurationError",
                          !.missingFields = missingFields,
                          !.absent = {f \in {"id", "hookAddress", "hookType", "network"} :
                                        serviceConfig[f] = ""}]
            /\ UNCHANGED <<serverNetwork, services, pending, reply>>
       ELSE /\ Len(pending) < MaxInFlight
            /\ pending' = Append(pending, serviceConfig)
            /\ UNCHANGED <<serverNetwork, services, resp, reply>>

RemoveAt(s, i) == [j \in 1..(Len(s) - 1) |-> IF j < i THEN s[j] ELSE s[j + 1]]

\* Bookkeeping of what happened, apart from the code: resp.config is the argument
\* the settled call was invoked with, resp.replaced whether its id had a record.
\* For the race of two calls on one id, pos and left say where the
\* call that settled last sat among the suspended calls and how many it left
\* behind; pending only grows at its end, so the call now at index i overlapped
\* that call iff i <= left, and was invoked before it iff i < pos.
Rival(i) ==
    IF resp.kind = "ok" /\ resp.config.id = pending[i].id
       /\ resp.config # pending[i] /\ i <= resp.left
    THEN IF i < resp.pos THEN "later" ELSE "earlier"
    ELSE "none"

\* mutant: the config is kept in a field shared by all calls, so a resumed call
\* sees the config of the call invoked last
ResumedConfig_Shared(i) == pending[Len(pending)]

\* the parameter serviceConfig of suspended call i, captured by its continuation
ResumedConfig(i) == pending[i]

\* lines 84-96: the read of suspended call i settles under ledger condition cond
AddServiceResume(i, cond) ==
    LET serviceConfig == ResumedConfig(i)
        read == GetSettlementRouter(serviceConfig.hookAddress, cond)
        networkSettings == GetConfig(serverNetwork)
    IN
    /\ UNCHANGED <<codecVars, prepVars, submitVars, discVars, readerVars>>
    /\ IF read.ok
       THEN /\ services' = MapSet(services, serviceConfig.id,
                                  BuildService(serviceConfig, read.value, networkSettings))
            /\ resp' = [NoResp EXCEPT !.kind = "ok", !.cond = cond, !.config = pending[i],
                                      !.router = read.value, !.reads = 1,
                                      !.replaced = MapHas(services, pending[i].id),
                                      !.pos = i, !.left = Len(pending) - 1,
                                      !.rival = Rival(i)]
            /\ pending' = RemoveAt(pending, i)
            /\ UNCHANGED <<serverNetwork, reply>>
       ELSE /\ resp' = [NoResp EXCEPT !.kind = read.error, !.cond = cond,
                                      !.config = pending[i], !.address = read.address,
                                      !.reads = 1]
            /\ pending' = RemoveAt(pending, i)
            /\ UNCHANGED <<serverNetwork, services, reply>>

\* getService(id), listServices()
GetService(id) == MapGet(services, id)

ListServices == MapValues(services)

RegInit ==
    /\ serverNetwork \in CronosNetworks
    /\ services = <<>>
    /\ pending = <<>>
    /\ resp = NoResp

(***************************************************************************)
(* Addresses.  The strings below stand for 42-character address strings:   *)
(* one 20-byte value written in lower case and in its EIP-55 checksum      *)
(* case, a second value in checksum case, a mixed-case string whose        *)
(* checksum is wrong, and a string that is too short.                      *)
(* ethers.getAddress accepts lower-case and correctly checksummed strings  *)
(* and returns the checksum form; ethers.isAddress is "getAddress does not *)
(* throw".                                                                 *)
(***************************************************************************)
AddrLower1 == "0xabcd..01"
AddrSum1   == "0xAbCd..01"
AddrSum2   == "0xEf12..02"
AddrBadSum == "0xaBcD..01"
AddrShort  == "0xabc"

GetAddress(a) ==
    CASE a \in {AddrLower1, AddrSum1} -> [ok |-> TRUE, value |-> AddrSum1]
      [] a = AddrSum2                 -> [ok |-> TRUE, value |-> AddrSum2]
      [] OTHER                        -> [ok |-> FALSE, value |-> ""]

IsAddress(a) == GetAddress(a).ok

\* the 20-byte value of a checksummed address as an ABI word, and back
AddressWord(a) == IF a = AddrSum1 THEN 1 ELSE 2
WordAddress(w) == IF w = 1 THEN AddrSum1 ELSE IF w = 2 THEN AddrSum2 ELSE "0x0000..xx"

(***************************************************************************)
(* ABI coding (ethers.AbiCoder) of the two schemas of the codec.  A        *)
(* payload is the hex string: `prefix` says whether it starts with "0x",   *)
(* `words` are its 32-byte words.  "0x" and "" are the two empty payloads. *)
(***************************************************************************)
Hex0x    == [prefix |-> TRUE, words |-> <<>>]
HexEmpty == [prefix |-> FALSE, words |-> <<>>]

Threw == [ok |-> FALSE]
Returned(v) == [ok |-> TRUE, value |-> v]

WordSize == 32
Uint16Max == 65535

\* abiCoder.encode(['tuple(address)'], [[a]]): one word; throws unless getAddress(a) succeeds
AbiEncodeAddressTuple(a) ==
    IF GetAddress(a).ok
    THEN Returned([prefix |-> TRUE, words |-> <<AddressWord(GetAddress(a).value)>>])
    ELSE Threw

\* abiCoder.encode(['tuple(address recipient, uint16 bips)[]'], [splits]): the offset
\* of the array, its length, then two words per element; throws on a recipient that
\* is no address and on bips outside uint16
AbiEncodeSplits(splits) ==
    IF \A i \in DOMAIN splits :
          /\ GetAddress(splits[i].recipient).ok
          /\ splits[i].bips >= 0
          /\ splits[i].bips <= Uint16Max
    THEN Returned([prefix |-> TRUE,
                   words |-> <<WordSize, Len(splits)>> \o
                       [k \in 1..(2 * Len(splits)) |->
                           IF k % 2 = 1
                           THEN AddressWord(GetAddress(splits[(k + 1) \div 2].recipient).value)
                           ELSE splits[k \div 2].bips]])
    ELSE Threw

\* abiCoder.decode(['tuple(address)'], hookData)[0][0]
AbiDecodeAddressTuple(hookData) ==
    IF hookData.prefix /\ Len(hookData.words) >= 1
    THEN Returned(WordAddress(hookData.words[1]))
    ELSE Threw

\* abiCoder.decode(['tuple(address recipient, uint16 bips)[]'], hookData)[0]
AbiDecodeSplits(hookData) ==
    LET w == hookData.words IN
    IF /\ hookData.prefix
       /\ Len(w) >= 2
       /\ w[1] % WordSize = 0
       /\ w[1] \div WordSize + 1 <= Len(w)
    THEN LET at == w[1] \div WordSize + 1
             n == w[at]
         IN IF n >= 0 /\ at + 2 * n <= Len(w)
            THEN Returned([i \in 1..n |->
                     [recipient |-> WordAddress(w[at + 2 * i - 1]),
                      bips |-> w[at + 2 * i] % (Uint16Max + 1)]])
            ELSE Threw
    ELSE Threw

(***************************************************************************)
(* shared/hook-data-codec.ts.  HookDataParams is an object: a field it     *)
(* does not have reads as "undefined"; splits is {present, items}.         *)
(***************************************************************************)
HookTypes == {"nft-mint", "reward-points", "transfer-split"}

NoSplits == [present |-> FALSE, items |-> <<>>]
SomeSplits(items) == [present |-> TRUE, items |-> items]

NftMintParams(a) ==
    [type |-> "nft-mint", nftContract |-> a, rewardToken |-> "undefined", splits |-> NoSplits]
RewardPointsParams(a) ==
    [type |-> "reward-points", nftContract |-> "undefined", rewardToken |-> a, splits |-> NoSplits]
TransferSplitParams(splits) ==
    [type |-> "transfer-split", nftContract |-> "undefined", rewardToken |-> "undefined",
     splits |-> splits]

\* !data.splits || data.splits.length === 0
SplitsEmpty(splits) == ~splits.present \/ Len(splits.items) = 0

\* lines 20-47: the switch is on hookType; params.type is never read
Encode(hookType, params) ==
    CASE hookType = "nft-mint"       -> AbiEncodeAddressTuple(params.nftContract)
      [] hookType = "reward-points"  -> AbiEncodeAddressTuple(params.rewardToken)
      [] hookType = "transfer-split" ->
            IF SplitsEmpty(params.splits) THEN Returned(Hex0x)
            ELSE AbiEncodeSplits(params.splits.items)
      [] OTHER -> Threw

\* hookData === '0x' || hookData === ''
IsEmptyHookData(hookData) == hookData = Hex0x \/ hookData = HexEmpty

\* mutant: the empty payload is not special-cased for transfer-split
Decode_NoEmptyCase(hookType, hookData) ==
    CASE hookType = "nft-mint" ->
            LET d == AbiDecodeAddressTuple(hookData) IN
            IF d.ok THEN Returned(NftMintParams(d.value)) ELSE Threw
      [] hookType = "reward-points" ->
            LET d == AbiDecodeAddressTuple(hookData) IN
            IF d.ok THEN Returned(RewardPointsParams(d.value)) ELSE Threw
      [] hookType = "transfer-split" ->
            LET d == AbiDecodeSplits(hookData) IN
            IF d.ok THEN Returned(TransferSplitParams(SomeSplits(d.value))) ELSE Threw
      [] OTHER -> Threw

\* lines 52-97
Decode(hookType, hookData) ==
    CASE hookType = "nft-mint" ->
            IF IsEmptyHookData(hookData) THEN Threw
            ELSE LET d == AbiDecodeAddressTuple(hookData) IN
                 IF d.ok THEN Returned(NftMintParams(d.value)) ELSE Threw
      [] hookType = "reward-points" ->
            IF IsEmptyHookData(hookData) THEN Threw
            ELSE LET d == AbiDecodeAddressTuple(hookData) IN
                 IF d.ok THEN Returned(RewardPointsParams(d.value)) ELSE Threw
      [] hookType = "transfer-split" ->
            IF IsEmptyHookData(hookData) THEN Returned(TransferSplitParams(NoSplits))
            ELSE LET d == AbiDecodeSplits(hookData) IN
                 IF d.ok THEN Returned(TransferSplitParams(SomeSplits(d.value))) ELSE Threw
      [] OTHER -> Threw

\* params.splits.reduce((sum, s) => sum + s.bips, 0)
RECURSIVE SumBips(_)
SumBips(items) ==
    IF Len(items) = 0 THEN 0
    ELSE SumBips(SubSeq(items, 1, Len(items) - 1)) + items[Len(items)].bips

\* mutant: the shares only have to reach 10000
Validate_AtLeast(params) ==
    CASE params.type = "nft-mint"       -> IsAddress(params.nftContract)
      [] params.type = "reward-points"  -> IsAddress(params.rewardToken)
      [] params.type = "transfer-split" ->
            IF SplitsEmpty(params.splits) THEN TRUE
            ELSE /\ \A i \in DOMAIN params.splits.items :
                       IsAddress(params.splits.items[i].recipient)
                 /\ SumBips(params.splits.items) >= 10000
      [] OTHER -> FALSE

\* lines 135-154
Validate(params) ==
    CASE params.type = "nft-mint"       -> IsAddress(params.nftContract)
      [] params.type = "reward-points"  -> IsAddress(params.rewardToken)
      [] params.type = "transfer-split" ->
            IF SplitsEmpty(params.splits) THEN TRUE
            ELSE LET allValidAddresses ==
                         \A i \in DOMAIN params.splits.items :
                             IsAddress(params.splits.items[i].recipient)
                     totalBips == SumBips(params.splits.items)
                 IN allValidAddresses /\ totalBips = 10000
      [] OTHER -> FALSE

(***************************************************************************)
(* The codec harness: one params value and hook type per behaviour, on     *)
(* which validate, encode and decode (of the encoding, or of a payload     *)
(* given from outside) are run.                                            *)
(***************************************************************************)
AddressInputs == {AddrLower1, AddrSum1, AddrSum2, AddrBadSum, AddrShort, "undefined"}
Recipients == {AddrLower1, AddrSum1, AddrSum2, AddrBadSum}
BipsInputs == {-60000, 4999, 5000, 10000, 70000}

SplitLists ==
    UNION { [1..n -> [recipient : Recipients, bips : BipsInputs]] : n \in 0..MaxSplits }

HookParams ==
    { NftMintParams(a) : a \in AddressInputs }
    \cup { RewardPointsParams(a) : a \in AddressInputs }
    \cup { TransferSplitParams(SomeSplits(l)) : l \in SplitLists }
    \cup { TransferSplitParams(NoSplits) }

RawPayloads ==
    { Hex0x, HexEmpty,
      [prefix |-> TRUE, words |-> <<1>>],
      [prefix |-> TRUE, words |-> <<32, 1, 2, 10000>>],
      [prefix |-> TRUE, words |-> <<32, 2, 1, 5000>>] }

NoCout == [valid |-> FALSE, encoded |-> Threw, hookData |-> Hex0x, decoded |-> Threw]

CodecInit ==
    /\ cpc = "start"
    /\ cin \in [hookType : HookTypes, params : HookParams]
    /\ cout = NoCout

CodecValidate ==
    /\ UNCHANGED <<regVars, prepVars, submitVars,
                 serveVars, discVars, readerVars>>
    /\ cpc = "start"
    /\ cpc' = "validated"
    /\ cout' = [cout EXCEPT !.valid = Validate(cin.params)]
    /\ UNCHANGED cin

CodecEncode ==
    /\ UNCHANGED <<regVars, prepVars, submitVars,
                 serveVars, discVars, readerVars>>
    /\ cpc = "validated"
    /\ cpc' = "encoded"
    /\ cout' = [cout EXCEPT !.encoded = Encode(cin.hookType, cin.params)]
    /\ UNCHANGED cin

\* decode of what encode returned
CodecDecode ==
    /\ UNCHANGED <<regVars, prepVars, submitVars,
                 serveVars, discVars, readerVars>>
    /\ cpc = "encoded"
    /\ cout.encoded.ok
    /\ cpc' = "decoded"
    /\ cout' = [cout EXCEPT !.hookData = cout.encoded.value,
                            !.decoded = Decode(cin.hookType, cout.encoded.value)]
    /\ UNCHANGED cin

\* decode of a payload received from outside
CodecDecodeRaw ==
    /\ UNCHANGED <<regVars, prepVars, submitVars,
                 serveVars, discVars, readerVars>>
    /\ cpc = "start"
    /\ \E hookData \in RawPayloads :
          cout' = [cout EXCEPT !.hookData = hookData,
                               !.decoded = Decode(cin.hookType, hookData)]
    /\ cpc' = "rawdecoded"
    /\ UNCHANGED cin

CodecIdle ==
    /\ cpc = "idle"
    /\ cin = [hookType |-> "nft-mint", params |-> NftMintParams(AddrSum1)]
    /\ cout = NoCout

(***************************************************************************)
(* Decimal strings, as sequences of characters.                            *)
(***************************************************************************)
DigitChars == <<"0", "1", "2", "3", "4", "5", "6", "7", "8", "9">>
IsDigit(c) == \E d \in DOMAIN DigitChars : DigitChars[d] = c
DigitValue(c) == (CHOOSE d \in DOMAIN DigitChars : DigitChars[d] = c) - 1

RECURSIVE DigitsValue(_)
DigitsValue(ds) ==
    IF Len(ds) = 0 THEN 0
    ELSE 10 * DigitsValue(SubSeq(ds, 1, Len(ds) - 1)) + DigitValue(ds[Len(ds)])

RECURSIVE Pow10(_)
Pow10(n) == IF n = 0 THEN 1 ELSE 10 * Pow10(n - 1)

\* n.toString() for a non-negative integer
RECURSIVE NatToString(_)
NatToString(n) ==
    IF n < 10 THEN <<DigitChars[n + 1]>>
    ELSE Append(NatToString(n \div 10), DigitChars[(n % 10) + 1])

\* mutant: the number passes through a representation that keeps only its leading digits
NumberToString_Rounded(n) == NatToString((n \div 1000) * 1000)

NumberToString(n) == IF n < 0 THEN <<"-">> \o NatToString(-n) ELSE NatToString(n)

\* mutant: digits beyond the supported precision are dropped instead of rejected
ParseUnits_Truncating(value, decimals) ==
    LET dots == {i \in DOMAIN value : value[i] = "."}
        dot == IF dots = {} THEN Len(value) + 1 ELSE CHOOSE i \in dots : TRUE
        whole == SubSeq(value, 1, dot - 1)
        decimal == SubSeq(value, dot + 1, Len(value))
        kept == SubSeq(decimal, 1, IF Len(decimal) < decimals THEN Len(decimal) ELSE decimals)
    IN
    IF /\ Cardinality(dots) <= 1
       /\ \A i \in DOMAIN value : i # dot => IsDigit(value[i])
       /\ Len(whole) + Len(decimal) > 0
    THEN Returned(DigitsValue(whole) * Pow10(decimals)
                  + DigitsValue(kept) * Pow10(decimals - Len(kept)))
    ELSE Threw

\* ethers.parseUnits(value, decimals), which is FixedNumber.fromString: the string
\* must match /^(-?)([0-9]*)\.?([0-9]*)$/ with at least one digit, and the digits
\* after the first `decimals` fractional places must all be zero
ParseUnits(value, decimals) ==
    LET negative == Len(value) > 0 /\ value[1] = "-"
        body == IF negative THEN SubSeq(value, 2, Len(value)) ELSE value
        dots == {i \in DOMAIN body : body[i] = "."}
        dot == IF dots = {} THEN Len(body) + 1 ELSE CHOOSE i \in dots : TRUE
        whole == SubSeq(body, 1, dot - 1)
        decimal == SubSeq(body, dot + 1, Len(body))
        matches == /\ Cardinality(dots) <= 1
                   /\ \A i \in DOMAIN body : i # dot => IsDigit(body[i])
                   /\ Len(whole) + Len(decimal) > 0
    IN
    IF ~matches THEN Threw
    ELSE IF \E i \in DOMAIN decimal : i > decimals /\ decimal[i] # "0" THEN Threw
    ELSE LET kept == SubSeq(decimal, 1, IF Len(decimal) < decimals THEN Len(decimal) ELSE decimals)
             magnitude == DigitsValue(whole) * Pow10(decimals)
                          + DigitsValue(kept) * Pow10(decimals - Len(kept))
         IN Returned(IF negative THEN 0 - magnitude ELSE magnitude)

(***************************************************************************)
(* client.ts: X402Client.prepareTransaction, with the two ContractReader   *)
(* reads it awaits.  An absent optional parameter is Absent.               *)
(***************************************************************************)
UsdcDecimals == 6
DefaultValiditySeconds == 3600

Absent == [absent |-> TRUE]
Given(v) == [absent |-> FALSE, value |-> v]

\* params.facilitatorFee || '0'
FacilitatorFeeOrDefault(facilitatorFee) ==
    IF facilitatorFee.absent \/ facilitatorFee.value = <<>> THEN <<"0">>
    ELSE facilitatorFee.value

\* params.validitySeconds || 3600
ValiditySecondsOrDefault(validitySeconds) ==
    IF validitySeconds.absent \/ validitySeconds.value = 0 THEN DefaultValiditySeconds
    ELSE validitySeconds.value

NoLocal ==
    [hookData |-> Hex0x, salt |-> "", validAfter |-> 0, validBefore |-> 0,
     value |-> 0, fee |-> 0, nonce |-> "", tokenInfo |-> [name |-> "", version |-> ""]]

NoPout == [kind |-> "none", step |-> "", prepared |-> Undefined]

\* the ten arguments of router.calculateCommitment fit their ABI types: ethers
\* encodes them before it sends anything, and throws on a uint256 below zero
CommitmentArgsEncodable(value, validAfter, validBefore, fee) ==
    value >= 0 /\ validAfter >= 0 /\ validBefore >= 0 /\ fee >= 0

\* mutant: the commitment is requested for a salt drawn again
CommitmentParams_FreshSalt(params, salt, validAfter, validBefore, value, fee, hookData) ==
    [token |-> params.service.usdcAddress, from |-> params.payerAddress,
     value |-> value, validAfter |-> validAfter, validBefore |-> validBefore,
     salt |-> "0xSalt3", payTo |-> params.payTo, facilitatorFee |-> fee,
     hook |-> params.service.hookAddress, hookData |-> hookData]

\* lines 137-148: the CommitmentParams passed to calculateCommitment
CommitmentParams(params, salt, validAfter, validBefore, value, fee, hookData) ==
    [token |-> params.service.usdcAddress, from |-> params.payerAddress,
     value |-> value, validAfter |-> validAfter, validBefore |-> validBefore,
     salt |-> salt, payTo |-> params.payTo, facilitatorFee |-> fee,
     hook |-> params.service.hookAddress, hookData |-> hookData]

\* what the ledger does with a read: it answers with a value or the call fails
CommitmentOutcomes ==
    { [ok |-> TRUE, value |-> "0xCommitment1"], [ok |-> TRUE, value |-> "0xCommitment2"],
      [ok |-> FALSE, value |-> ""] }

NoTokenInfo == [name |-> "", version |-> ""]

TokenInfoOutcomes ==
    { [ok |-> TRUE, value |-> [name |-> "USD Coin", version |-> "2"]],
      [ok |-> TRUE, value |-> [name |-> "Bridged USDC", version |-> "1"]],
      [ok |-> FALSE, value |-> NoTokenInfo] }

\* mutant: a failed read is answered with the zero commitment
CalculateCommitment_Swallow(outcome) ==
    [ok |-> TRUE, value |-> outcome.value, error |-> ""]

\* contract-reader.ts lines 76-107: the commitment, or NetworkError for a caught Error
CalculateCommitment(outcome) ==
    IF outcome.ok THEN [ok |-> TRUE, value |-> outcome.value, error |-> ""]
    ELSE [ok |-> FALSE, value |-> outcome.value, error |-> "NetworkError"]

\* mutant: a failed read is answered with an empty name and version
GetTokenInfo_Swallow(outcome) ==
    [ok |-> TRUE, value |-> outcome.value, error |-> ""]

\* contract-reader.ts lines 112-126: {name, version}, or NetworkError for a caught Error
GetTokenInfo(outcome) ==
    IF outcome.ok THEN [ok |-> TRUE, value |-> outcome.value, error |-> ""]
    ELSE [ok |-> FALSE, value |-> outcome.value, error |-> "NetworkError"]

\* the ledger outcome of the read sent last is written into its entry
Settle(calls, outcome) ==
    [calls EXCEPT ![Len(calls)].outcome = IF outcome.ok THEN "ok" ELSE "failed"]

\* lines 115-149, up to the first await: defaults, hook data, salt, time bounds
\* and amounts, then calculateCommitment is called
PrepareTransaction ==
    /\ UNCHANGED <<regVars, codecVars, submitVars,
                 serveVars, discVars, readerVars>>
    /\ ppc = "start"
    /\ \E salt \in {"0xSalt1", "0xSalt2"} :
        LET service == pin.params.service
            facilitatorFee == FacilitatorFeeOrDefault(pin.params.facilitatorFee)
            validitySeconds == ValiditySecondsOrDefault(pin.params.validitySeconds)
            hookData == Encode(service.hookType, pin.params.hookDataParams)
            validAfter == 0
            validBefore == pin.now + validitySeconds
            value == ParseUnits(pin.params.paymentAmount, UsdcDecimals)
            fee == ParseUnits(facilitatorFee, UsdcDecimals)
        IN
        IF ~hookData.ok
        THEN /\ ppc' = "failed"
             /\ pout' = [NoPout EXCEPT !.kind = "Error", !.step = "encode"]
             /\ UNCHANGED <<plocal, pcalls>>
        ELSE IF ~value.ok \/ ~fee.ok
        THEN /\ ppc' = "failed"
             /\ pout' = [NoPout EXCEPT !.kind = "Error", !.step = "parse"]
             /\ UNCHANGED <<plocal, pcalls>>
        ELSE /\ plocal' = [NoLocal EXCEPT !.hookData = hookData.value, !.salt = salt,
                                          !.validAfter = validAfter,
                                          !.validBefore = validBefore,
                                          !.value = value.value, !.fee = fee.value]
             /\ IF CommitmentArgsEncodable(value.value, validAfter, validBefore, fee.value)
                THEN /\ ppc' = "awaitCommitment"
                     /\ pcalls' = Append(pcalls,
                            [fn |-> "calculateCommitment", to |-> service.settlementRouter,
                             outcome |-> "pending",
                             args |-> CommitmentParams(pin.params, salt, validAfter,
                                                       validBefore, value.value,
                                                       fee.value, hookData.value)])
                     /\ pout' = pout
                ELSE /\ ppc' = "failed"
                     /\ pout' = [NoPout EXCEPT !.kind = "NetworkError", !.step = "commitment"]
                     /\ pcalls' = pcalls
    /\ UNCHANGED pin

\* contract-reader.ts lines 76-107 settle; on success line 152 calls getTokenInfo
CommitmentSettles ==
    /\ UNCHANGED <<regVars, codecVars, submitVars,
                 serveVars, discVars, readerVars>>
    /\ ppc = "awaitCommitment"
    /\ \E outcome \in CommitmentOutcomes :
        LET read == CalculateCommitment(outcome) IN
        IF read.ok
        THEN /\ plocal' = [plocal EXCEPT !.nonce = read.value]
             /\ pcalls' = Append(Settle(pcalls, outcome),
                    [fn |-> "getTokenInfo", to |-> pin.params.service.usdcAddress,
                     outcome |-> "pending", args |-> Undefined])
             /\ ppc' = "awaitTokenInfo"
             /\ pout' = pout
        ELSE /\ ppc' = "failed"
             /\ pout' = [NoPout EXCEPT !.kind = read.error, !.step = "commitment"]
             /\ pcalls' = Settle(pcalls, outcome)
             /\ plocal' = plocal
    /\ UNCHANGED pin

\* contract-reader.ts lines 112-126 settle; on success lines 154-205 build the result
TokenInfoSettles ==
    /\ UNCHANGED <<regVars, codecVars, submitVars,
                 serveVars, discVars, readerVars>>
    /\ ppc = "awaitTokenInfo"
    /\ \E outcome \in TokenInfoOutcomes :
        LET read == GetTokenInfo(outcome)
            tokenInfo == read.value
            service == pin.params.service
        IN
        /\ pcalls' = Settle(pcalls, outcome)
        /\ IF read.ok
           THEN
            /\ ppc' = "returned"
            /\ plocal' = [plocal EXCEPT !.tokenInfo = tokenInfo]
            /\ pout' = [NoPout EXCEPT !.kind = "ok", !.prepared =
                  [typedData |->
                      [primaryType |-> "TransferWithAuthorization",
                       domain |-> [name |-> tokenInfo.name,
                                   version |-> tokenInfo.version,
                                   chainId |-> service.chainId,
                                   verifyingContract |-> service.usdcAddress],
                       message |-> [from |-> pin.params.payerAddress,
                                    to |-> service.settlementRouter,
                                    value |-> NumberToString(plocal.value),
                                    validAfter |-> NumberToString(plocal.validAfter),
                                    validBefore |-> NumberToString(plocal.validBefore),
                                    nonce |-> plocal.nonce]],
                   routerAddress |-> service.settlementRouter,
                   nonce |-> plocal.nonce,
                   salt |-> plocal.salt,
                   hookData |-> plocal.hookData,
                   params |-> [token |-> service.usdcAddress,
                               from |-> pin.params.payerAddress,
                               value |-> plocal.value,
                               validAfter |-> plocal.validAfter,
                               validBefore |-> plocal.validBefore,
                               payTo |-> pin.params.payTo,
                               facilitatorFee |-> plocal.fee,
                               hook |-> service.hookAddress]]]
           ELSE
            /\ ppc' = "failed"
            /\ pout' = [NoPout EXCEPT !.kind = read.error, !.step = "tokenInfo"]
            /\ plocal' = plocal
    /\ UNCHANGED pin

(***************************************************************************)
(* The inputs of prepareTransaction.                                       *)
(***************************************************************************)
PrepServices ==
    { BuildService([id |-> "svc-1", title |-> "Service", hookType |-> t,
                    hookAddress |-> "0xHookA", network |-> "cronos-testnet",
                    settlementRouter |-> "absent", usdcAddress |-> "absent", chainId |-> 0],
                   RouterOf("0xHookA"), GetConfig("cronos-testnet")) : t \in HookTypes }

PrepHookParams ==
    { NftMintParams(AddrSum1), RewardPointsParams(AddrLower1),
      TransferSplitParams(NoSplits),
      TransferSplitParams(SomeSplits(<<>>)),
      TransferSplitParams(SomeSplits(<<[recipient |-> AddrSum1, bips |-> 5000],
                                       [recipient |-> AddrSum2, bips |-> 5000]>>)),
      TransferSplitParams(SomeSplits(<<[recipient |-> AddrSum1, bips |-> 5000],
                                       [recipient |-> AddrSum2, bips |-> 4999]>>)) }

AmountInputs ==
    { <<"0", ".", "1">>, <<"1">>, <<"0", ".", "0", "0", "0", "0", "0", "0", "1">>,
      <<"-", "1">>, <<"a", "b", "c">>, <<>> }

FeeInputs == { Absent, Given(<<>>), Given(<<"0", ".", "5">>), Given(<<"1", "e", "3">>) }

ValidityInputs == { Absent, Given(0), Given(60) }

TransactionParams ==
    [service : PrepServices, payerAddress : {"0xPayer"}, payTo : {"0xPayee"},
     paymentAmount : AmountInputs, facilitatorFee : FeeInputs,
     hookDataParams : PrepHookParams, validitySeconds : ValidityInputs]

NowInputs == {1700000000, 1700003600}

PrepInit ==
    /\ ppc = "start"
    /\ pin \in [params : TransactionParams, now : NowInputs]
    /\ plocal = NoLocal
    /\ pcalls = <<>>
    /\ pout = NoPout

PrepIdle ==
    /\ ppc = "idle"
    /\ pin = [params |-> CHOOSE t \in TransactionParams : TRUE, now |-> CHOOSE n \in NowInputs : TRUE]
    /\ plocal = NoLocal
    /\ pcalls = <<>>
    /\ pout = NoPout

(***************************************************************************)
(* client.ts: X402Client.validateSignature.  A signature is the sequence   *)
(* of its characters.                                                      *)
(***************************************************************************)
SignatureLength == 132

HexPrefix == <<"0", "x">>

\* signature.startsWith('0x')
StartsWith(s, prefix) == Len(s) >= Len(prefix) /\ SubSeq(s, 1, Len(prefix)) = prefix

\* signature.slice(2)
Slice(s, start) == SubSeq(s, start + 1, Len(s))

\* the character class [0-9a-fA-F]
HexClass(c) ==
    \/ IsDigit(c)
    \/ c \in {"a", "b", "c", "d", "e", "f"}
    \/ c \in {"A", "B", "C", "D", "E", "F"}

\* /^[0-9a-fA-F]+$/.test(hexPart)
HexPartTest(hexPart) == Len(hexPart) >= 1 /\ \A i \in DOMAIN hexPart : HexClass(hexPart[i])

\* mutant: the length test is left out
ValidateSignature_NoLength(signature) ==
    StartsWith(signature, HexPrefix) /\ HexPartTest(Slice(signature, 2))

\* mutant: only the prefix and the length are tested
ValidateSignature_NoHexTest(signature) ==
    StartsWith(signature, HexPrefix) /\ Len(signature) = SignatureLength

ValidateSignature(signature) ==
    IF ~StartsWith(signature, HexPrefix) THEN FALSE
    ELSE IF Len(signature) # SignatureLength THEN FALSE
    ELSE HexPartTest(Slice(signature, 2))

(***************************************************************************)
(* client.ts: X402Client.submitTransaction, with the settlement call and   *)
(* the receipt it awaits.                                                   *)
(***************************************************************************)
\* the longest log list of a receipt
MaxLogs == 2

\* mutant: the interface also declares the event the router emits on settlement
RouterEventFragments_WithSettled ==
    { [topicHash |-> "0xTopicSettled", name |-> "Settled"] }

\* the event fragments of router.interface: SETTLEMENT_ROUTER_ABI declares two
\* functions and no event
RouterEventFragments == {}

Null == [null |-> TRUE]

\* router.interface.parseLog({topics, data}): getEvent(topics[0]) throws on a log
\* without topics and gives null when no event fragment has that topic hash
ParseLog(log) ==
    IF log.topics = <<>> THEN Threw
    ELSE IF \E fragment \in RouterEventFragments : fragment.topicHash = log.topics[1]
    THEN LET fragment == CHOOSE f \in RouterEventFragments : f.topicHash = log.topics[1]
         IN Returned([null |-> FALSE, name |-> fragment.name, args |-> log.data])
    ELSE Returned(Null)

UnknownEvent == [name |-> "Unknown", args |-> "{}"]

\* lines 269-290 for one log
ParseEvent(log) ==
    LET parsed == ParseLog(log) IN
    IF parsed.ok /\ ~parsed.value.null
    THEN [name |-> parsed.value.name, args |-> parsed.value.args]
    ELSE UnknownEvent

\* mutant: logs that cannot be parsed are filtered out
RECURSIVE ParseEvents_DropUnparsed(_)
ParseEvents_DropUnparsed(logs) ==
    IF logs = <<>> THEN <<>>
    ELSE IF ParseEvent(Head(logs)) = UnknownEvent THEN ParseEvents_DropUnparsed(Tail(logs))
    ELSE <<ParseEvent(Head(logs))>> \o ParseEvents_DropUnparsed(Tail(logs))

\* receipt.logs.map(...)
RECURSIVE ParseEvents(_)
ParseEvents(logs) ==
    IF logs = <<>> THEN <<>>
    ELSE <<ParseEvent(Head(logs))>> \o ParseEvents(Tail(logs))

Quote == "\""
ReasonMarker == <<"r", "e", "a", "s", "o", "n", "=", Quote>>

\* the pattern reason="([^"]+)" matches at position i of the message
ReasonMatchesAt(message, i) ==
    /\ i + Len(ReasonMarker) <= Len(message)
    /\ SubSeq(message, i, i + Len(ReasonMarker) - 1) = ReasonMarker
    /\ message[i + Len(ReasonMarker)] # Quote
    /\ \E j \in (i + Len(ReasonMarker) + 1)..Len(message) : message[j] = Quote

\* mutant: the whole failure message is reported as the reason
RevertReason_WholeMessage(message) == Given(message)

\* error.message.match(/reason="([^"]+)"/), then revertMatch ? revertMatch[1] : undefined
RevertReason(message) ==
    LET starts == {i \in DOMAIN message : ReasonMatchesAt(message, i)} IN
    IF starts = {} THEN Absent
    ELSE LET i == CHOOSE a \in starts : \A b \in starts : a <= b
             first == i + Len(ReasonMarker)
             closing == CHOOSE j \in (first + 1)..Len(message) :
                           /\ message[j] = Quote
                           /\ \A k \in (first + 1)..(j - 1) : message[k] # Quote
         IN Given(SubSeq(message, first, closing - 1))

MsgReverted == <<"r", "e", "v", "e", "r", "t", "e", "d", " ", "(", "r", "e", "a", "s", "o", "n", "=", "\"", "E", "x", "p", "i", "r", "e", "d", "\"", ",", " ", "c", "o", "d", "e", "=", "C", "A", "L", "L", "_", "E", "X", "C", "E", "P", "T", "I", "O", "N", ")">>
MsgRevertedNull == <<"r", "e", "v", "e", "r", "t", "e", "d", " ", "(", "r", "e", "a", "s", "o", "n", "=", "n", "u", "l", "l", ",", " ", "c", "o", "d", "e", "=", "C", "A", "L", "L", "_", "E", "X", "C", "E", "P", "T", "I", "O", "N", ")">>
MsgTimeout == <<"r", "e", "q", "u", "e", "s", "t", " ", "t", "i", "m", "e", "o", "u", "t">>
MsgEmptyThenReason == <<"r", "e", "a", "s", "o", "n", "=", "\"", "\"", " ", "r", "e", "a", "s", "o", "n", "=", "\"", "P", "a", "u", "s", "e", "d", "\"">>
MsgUnterminated == <<"r", "e", "a", "s", "o", "n", "=", "\"", "E", "x", "p", "i", "r", "e", "d">>
MsgInvalidKey == <<"i", "n", "v", "a", "l", "i", "d", " ", "p", "r", "i", "v", "a", "t", "e", " ", "k", "e", "y">>
MsgOutOfBounds == <<"v", "a", "l", "u", "e", " ", "o", "u", "t", "-", "o", "f", "-", "b", "o", "u", "n", "d", "s">>

\* the messages of the failures of sending the call or waiting for the receipt
FailureMessages ==
    {MsgReverted, MsgRevertedNull, MsgTimeout, MsgEmptyThenReason, MsgUnterminated}

\* new ethers.Wallet(signerPrivateKey, provider) accepts the key
IsPrivateKey(signerPrivateKey) == signerPrivateKey = "0xPrivateKey"

\* mutant: nonce and salt change places in the argument list
SettleAndExecuteArgs_NonceSaltSwapped(prepared, signature) ==
    [token |-> prepared.params.token, from |-> prepared.params.from,
     value |-> prepared.params.value, validAfter |-> prepared.params.validAfter,
     validBefore |-> prepared.params.validBefore, nonce |-> prepared.salt,
     signature |-> signature, salt |-> prepared.nonce,
     payTo |-> prepared.params.payTo,
     facilitatorFee |-> prepared.params.facilitatorFee,
     hook |-> prepared.params.hook, hookData |-> prepared.hookData]

\* the twelve arguments of router.settleAndExecute, by the names of the ABI
SettleAndExecuteArgs(prepared, signature) ==
    [token |-> prepared.params.token, from |-> prepared.params.from,
     value |-> prepared.params.value, validAfter |-> prepared.params.validAfter,
     validBefore |-> prepared.params.validBefore, nonce |-> prepared.nonce,
     signature |-> signature, salt |-> prepared.salt,
     payTo |-> prepared.params.payTo,
     facilitatorFee |-> prepared.params.facilitatorFee,
     hook |-> prepared.params.hook, hookData |-> prepared.hookData]

NoReceipt == [present |-> FALSE, hash |-> "", blockNumber |-> 0, logs |-> <<>>]

NoSlocal == [signer |-> FALSE, router |-> "", receipt |-> NoReceipt]

NoResult == [present |-> FALSE, success |-> FALSE, txHash |-> "", blockNumber |-> 0,
             events |-> <<>>, error |-> Absent]

NoSout == [kind |-> "none", valid |-> FALSE, failedAt |-> "", message |-> <<>>,
           revertReason |-> Absent, result |-> NoResult]

\* lines 298-309: the catch block, for a caught Error with this message
TransactionFailed(failedAt, message) ==
    [NoSout EXCEPT !.kind = "TransactionError", !.failedAt = failedAt,
                   !.message = message, !.revertReason = RevertReason(message)]

\* validateSignature called on its own
ValidateSignatureCall ==
    /\ UNCHANGED <<regVars, codecVars, prepVars,
                 serveVars, discVars, readerVars>>
    /\ spc = "start"
    /\ spc' = "validated"
    /\ sout' = [NoSout EXCEPT !.kind = "boolean", !.valid = ValidateSignature(sin.signature)]
    /\ UNCHANGED <<sin, slocal, scalls>>

\* lines 228-264, up to the first await: the signature test, the signer, the
\* contract and the settleAndExecute call
SubmitTransaction ==
    /\ UNCHANGED <<regVars, codecVars, prepVars,
                 serveVars, discVars, readerVars>>
    /\ spc = "start"
    /\ IF ~ValidateSignature(sin.signature)
       THEN /\ spc' = "failed"
            /\ sout' = [NoSout EXCEPT !.kind = "SignatureError", !.failedAt = "signature"]
            /\ UNCHANGED <<slocal, scalls>>
       ELSE IF ~IsPrivateKey(sin.signerPrivateKey)
       THEN /\ spc' = "failed"
            /\ sout' = TransactionFailed("signer", MsgInvalidKey)
            /\ UNCHANGED <<slocal, scalls>>
       ELSE IF ~CommitmentArgsEncodable(sin.prepared.params.value,
                                        sin.prepared.params.validAfter,
                                        sin.prepared.params.validBefore,
                                        sin.prepared.params.facilitatorFee)
       THEN /\ spc' = "failed"
            /\ sout' = TransactionFailed("encode", MsgOutOfBounds)
            /\ slocal' = [slocal EXCEPT !.signer = TRUE, !.router = sin.prepared.routerAddress]
            /\ scalls' = scalls
       ELSE /\ spc' = "awaitSend"
            /\ slocal' = [slocal EXCEPT !.signer = TRUE, !.router = sin.prepared.routerAddress]
            /\ scalls' = Append(scalls,
                   [fn |-> "settleAndExecute", to |-> sin.prepared.routerAddress,
                    args |-> SettleAndExecuteArgs(sin.prepared, sin.signature)])
            /\ sout' = sout
    /\ UNCHANGED sin

\* line 251 settles: the transaction was sent, or sending failed
SendSettles ==
    /\ UNCHANGED <<regVars, codecVars, prepVars,
                 serveVars, discVars, readerVars>>
    /\ spc = "awaitSend"
    /\ \/ /\ spc' = "awaitReceipt"
          /\ sout' = sout
       \/ \E message \in FailureMessages :
            /\ spc' = "failed"
            /\ sout' = TransactionFailed("send", message)
    /\ UNCHANGED <<sin, slocal, scalls>>

LogInputs ==
    { [topics |-> <<"0xTopicSettled">>, data |-> "0x"],
      [topics |-> <<"0xTopicTransfer", "0xTopicFrom">>, data |-> "0xData"],
      [topics |-> <<>>, data |-> "0xData"] }

LogLists == UNION { [1..n -> LogInputs] : n \in 0..MaxLogs }

Receipts == [present : {TRUE}, hash : {"0xTxHash"}, blockNumber : {7}, logs : LogLists]

\* line 266 settles: lines 269-297 build the result from the receipt, or the
\* wait failed
ReceiptSettles ==
    /\ UNCHANGED <<regVars, codecVars, prepVars,
                 serveVars, discVars, readerVars>>
    /\ spc = "awaitReceipt"
    /\ \/ \E receipt \in Receipts :
            /\ spc' = "returned"
            /\ slocal' = [slocal EXCEPT !.receipt = receipt]
            /\ sout' = [NoSout EXCEPT !.kind = "ok", !.result =
                   [present |-> TRUE, success |-> TRUE, txHash |-> receipt.hash,
                    blockNumber |-> receipt.blockNumber,
                    events |-> ParseEvents(receipt.logs), error |-> Absent]]
       \/ \E message \in FailureMessages :
            /\ spc' = "failed"
            /\ sout' = TransactionFailed("wait", message)
            /\ slocal' = slocal
    /\ UNCHANGED <<sin, scalls>>

(***************************************************************************)
(* The inputs of submitTransaction.  submitTransaction reads everything of *)
(* the PreparedTransaction but its typedData.                              *)
(***************************************************************************)
SigMixed ==
    HexPrefix \o [i \in 1..(SignatureLength - 2) |->
                    IF i % 3 = 0 THEN "a" ELSE IF i % 3 = 1 THEN "F" ELSE "9"]

SigZeros == HexPrefix \o [i \in 1..(SignatureLength - 2) |-> "0"]

SignatureInputs ==
    { SigMixed, SigZeros,
      SubSeq(SigMixed, 1, SignatureLength - 1),
      SigMixed \o <<"a">>,
      [SigMixed EXCEPT ![2] = "X"],
      [SigMixed EXCEPT ![1] = "1"],
      SubSeq(SigMixed, 3, SignatureLength) \o <<"a", "b">>,
      [SigMixed EXCEPT ![3] = "g"],
      [SigMixed EXCEPT ![70] = " "],
      [SigMixed EXCEPT ![SignatureLength] = "G"],
      HexPrefix,
      <<>> }

PreparedInputs ==
    { [routerAddress |-> "0xRouterA", nonce |-> "0xCommitment1", salt |-> "0xSalt1",
       hookData |-> Hex0x,
       params |-> [token |-> "0xToken", from |-> "0xPayer", value |-> 1000000,
                   validAfter |-> 0, validBefore |-> 1700003600, payTo |-> "0xPayee",
                   facilitatorFee |-> 500000, hook |-> "0xHookA"]],
      [routerAddress |-> "0xRouterB", nonce |-> "0xCommitment2", salt |-> "0xSalt2",
       hookData |-> AbiEncodeAddressTuple(AddrSum1).value,
       params |-> [token |-> "0xToken", from |-> "0xPayer", value |-> 100000,
                   validAfter |-> 0, validBefore |-> 1700000060, payTo |-> "0xPayee",
                   facilitatorFee |-> 0, hook |-> "0xHookB"]],
      [routerAddress |-> "0xRouterA", nonce |-> "0xCommitment1", salt |-> "0xSalt1",
       hookData |-> Hex0x,
       params |-> [token |-> "0xToken", from |-> "0xPayer", value |-> 0 - 1000000,
                   validAfter |-> 0, validBefore |-> 1700003600, payTo |-> "0xPayee",
                   facilitatorFee |-> 0, hook |-> "0xHookA"]] }

PrivateKeys == {"0xPrivateKey", "not-a-key"}

SubmitInit ==
    /\ spc = "start"
    /\ sin \in [prepared : PreparedInputs, signature : SignatureInputs,
                signerPrivateKey : PrivateKeys]
    /\ slocal = NoSlocal
    /\ scalls = <<>>
    /\ sout = NoSout

SubmitIdle ==
    /\ spc = "idle"
    /\ sin = [prepared |-> CHOOSE p \in PreparedInputs : TRUE, signature |-> <<>>,
              signerPrivateKey |-> "not-a-key"]
    /\ slocal = NoSlocal
    /\ scalls = <<>>
    /\ sout = NoSout

(***************************************************************************)
(* server.ts: the reads of X402Server, as methods and as the three routes  *)
(* of expressMiddleware.  Each read is synchronous; `reply` keeps what the *)
(* last one answered.                                                      *)
(***************************************************************************)
\* the config the server was constructed with, apart from its network
ServerConfig ==
    [name |-> "Shop", description |-> "x402 services", url |-> "https://shop.example"]

\* hook-data-codec.ts lines 102-130; the description and example texts are left out
GetSchema(hookType) ==
    CASE hookType = "nft-mint" ->
            [threw |-> FALSE, hookType |-> "nft-mint", abiType |-> "tuple(address)"]
      [] hookType = "reward-points" ->
            [threw |-> FALSE, hookType |-> "reward-points", abiType |-> "tuple(address)"]
      [] hookType = "transfer-split" ->
            [threw |-> FALSE, hookType |-> "transfer-split",
             abiType |-> "tuple(address recipient, uint16 bips)[]"]
      [] OTHER -> [threw |-> TRUE, hookType |-> hookType, abiType |-> ""]

\* lines 116-123
GetAgentCard ==
    [name |-> ServerConfig.name, description |-> ServerConfig.description,
     url |-> ServerConfig.url, services |-> ListServices]

\* lines 128-133: the spread of the record and its schema
GetServiceResponse(service) ==
    [service |-> service, hookDataSchema |-> GetSchema(service.hookType)]

NoCard == [name |-> "", description |-> "", url |-> "", services |-> <<>>]

NoReply ==
    [op |-> "none", id |-> "", status |-> 0, found |-> FALSE, service |-> NoConfig,
     services |-> <<>>, card |-> NoCard, responses |-> <<>>, error |-> ""]

\* the ids asked for: the two that get registered and one that never is
LookupIds == {"svc-1", "svc-2", "svc-9"}

\* lines 102-104
GetServiceCall(id) ==
    /\ reply' = [NoReply EXCEPT !.op = "getService", !.id = id,
                                !.found = MapHas(services, id),
                                !.service = IF MapHas(services, id)
                                            THEN GetService(id) ELSE NoConfig]
    /\ UNCHANGED <<serverNetwork, services, pending, resp>>
    /\ UNCHANGED <<codecVars, prepVars, submitVars, discVars, readerVars>>

\* lines 109-111
ListServicesCall ==
    /\ reply' = [NoReply EXCEPT !.op = "listServices", !.services = ListServices]
    /\ UNCHANGED <<serverNetwork, services, pending, resp>>
    /\ UNCHANGED <<codecVars, prepVars, submitVars, discVars, readerVars>>

\* lines 116-123
GetAgentCardCall ==
    /\ reply' = [NoReply EXCEPT !.op = "getAgentCard", !.card = GetAgentCard]
    /\ UNCHANGED <<serverNetwork, services, pending, resp>>
    /\ UNCHANGED <<codecVars, prepVars, submitVars, discVars, readerVars>>

\* lines 140-142: GET /.well-known/agent.json
HttpAgentCard ==
    /\ reply' = [NoReply EXCEPT !.op = "GET /.well-known/agent.json", !.status = 200,
                                !.card = GetAgentCard]
    /\ UNCHANGED <<serverNetwork, services, pending, resp>>
    /\ UNCHANGED <<codecVars, prepVars, submitVars, discVars, readerVars>>

\* lines 145-148: GET /api/x402/services; a getSchema that throws reaches the
\* default error handler of express, which answers 500
HttpListServices ==
    LET responses == [i \in DOMAIN ListServices |-> GetServiceResponse(ListServices[i])]
        threw == \E i \in DOMAIN responses : responses[i].hookDataSchema.threw
    IN
    /\ reply' = IF threw
                THEN [NoReply EXCEPT !.op = "GET /api/x402/services", !.status = 500]
                ELSE [NoReply EXCEPT !.op = "GET /api/x402/services", !.status = 200,
                                     !.responses = responses]
    /\ UNCHANGED <<serverNetwork, services, pending, resp>>
    /\ UNCHANGED <<codecVars, prepVars, submitVars, discVars, readerVars>>

\* lines 151-162: GET /api/x402/services/:id
HttpGetService(id) ==
    /\ reply' =
          IF ~MapHas(services, id)
          THEN [NoReply EXCEPT !.op = "GET /api/x402/services/:id", !.id = id,
                               !.status = 404, !.error = "Service not found"]
          ELSE IF GetServiceResponse(GetService(id)).hookDataSchema.threw
          THEN [NoReply EXCEPT !.op = "GET /api/x402/services/:id", !.id = id,
                               !.status = 500]
          ELSE [NoReply EXCEPT !.op = "GET /api/x402/services/:id", !.id = id,
                               !.status = 200, !.found = TRUE,
                               !.responses = <<GetServiceResponse(GetService(id))>>]
    /\ UNCHANGED <<serverNetwork, services, pending, resp>>
    /\ UNCHANGED <<codecVars, prepVars, submitVars, discVars, readerVars>>

ServeIdle == reply = NoReply

\* the configs registered while the reads are exercised
ServeConfigs ==
    { c \in ServiceConfigs :
        /\ c.usdcAddress = "absent"
        /\ c.network = "cronos"
        /\ c.hookType = "nft-mint"
        /\ c.hookAddress # "" \/ c.id = "svc-1" }

(***************************************************************************)
(* client.ts: X402Client.discover and discoverAll.                         *)
(*                                                                         *)
(* A server url is kept as its text without a final '/' and whether a      *)
(* final '/' follows.  The servers are outside the program: a fetch is     *)
(* rejected (no connection), or answers with a status; the body of a 2xx   *)
(* answer is an agent card or is not JSON.  fetch and response.json()      *)
(* reject with Error instances whose message is not empty.                 *)
(***************************************************************************)
MaxServers == 3

ServerUrls ==
    { [base |-> "https://shop-a.example", slash |-> FALSE],
      [base |-> "https://shop-a.example", slash |-> TRUE],
      [base |-> "https://shop-b.example", slash |-> FALSE] }

\* serverUrl.replace(/\/$/, '')
StripTrailingSlash(serverUrl) == [serverUrl EXCEPT !.slash = FALSE]

\* line 66: the url the agent card is fetched from
AgentCardUrl(serverUrl) ==
    [base |-> StripTrailingSlash(serverUrl).base, path |-> "/.well-known/agent.json"]

AgentCards ==
    { [name |-> "Shop A", url |-> [base |-> "https://shop-a.example", slash |-> FALSE],
       services |-> <<"svc-1", "svc-2">>],
      [name |-> "Shop B", url |-> [base |-> "https://shop-b.example", slash |-> FALSE],
       services |-> <<>>] }

\* line 88: the card of a failed discovery
EmptyCard(serverUrl) == [name |-> "", url |-> serverUrl, services |-> <<>>]

NoFetch == [kind |-> "none", ok |-> FALSE, statusText |-> "", message |-> ""]

FetchOutcomes ==
    { [kind |-> "rejected", ok |-> FALSE, statusText |-> "", message |-> "fetch failed"],
      [kind |-> "response", ok |-> FALSE, statusText |-> "Not Found", message |-> ""],
      [kind |-> "response", ok |-> FALSE, statusText |-> "", message |-> ""],
      [kind |-> "response", ok |-> TRUE, statusText |-> "OK", message |-> ""] }

NoBody == [kind |-> "none", card |-> EmptyCard([base |-> "", slash |-> FALSE]), message |-> ""]

BodyOutcomes ==
    { [kind |-> "json", card |-> c, message |-> ""] : c \in AgentCards }
    \cup { [NoBody EXCEPT !.kind = "invalid",
                          !.message = "Unexpected token < in JSON at position 0"] }

\* lines 84-99: what the catch block returns for an Error with this message
DiscoverFailure(serverUrl, message) ==
    [threw |-> FALSE, serverUrl |-> serverUrl, agentCard |-> EmptyCard(serverUrl),
     services |-> <<>>, hasError |-> TRUE, error |-> message]

\* mutant: the catch block rethrows what it caught
Discover_Rethrow(serverUrl, fetched, body) ==
    IF fetched.kind = "response" /\ fetched.ok /\ body.kind = "json"
    THEN [threw |-> FALSE, serverUrl |-> serverUrl, agentCard |-> body.card,
          services |-> body.card.services, hasError |-> FALSE, error |-> ""]
    ELSE [DiscoverFailure(serverUrl, "") EXCEPT !.threw = TRUE, !.hasError = FALSE]

\* lines 64-100: the value discover resolves with, given how its fetch and the
\* reading of the body went
Discover(serverUrl, fetched, body) ==
    IF fetched.kind = "rejected"
    THEN DiscoverFailure(serverUrl, fetched.message)
    ELSE IF ~fetched.ok
    THEN DiscoverFailure(serverUrl, "Failed to fetch agent card: " \o fetched.statusText)
    ELSE IF body.kind = "invalid"
    THEN DiscoverFailure(serverUrl, body.message)
    ELSE [threw |-> FALSE, serverUrl |-> serverUrl, agentCard |-> body.card,
          services |-> body.card.services, hasError |-> FALSE, error |-> ""]

NoDiscovered == [DiscoverFailure([base |-> "", slash |-> FALSE], "") EXCEPT !.hasError = FALSE]

UrlLists == UNION { [1..n -> ServerUrls] : n \in 0..MaxServers }

\* bookkeeping: seq is the place of a call among the calls in the order they settled
SettledCalls == Cardinality({i \in DOMAIN dcalls : dcalls[i].pc = "done"})

\* mutant: the results are collected in the order the calls settled
CollectResults_ArrivalOrder(calls) ==
    [k \in DOMAIN calls |-> calls[CHOOSE i \in DOMAIN calls : calls[i].seq = k].result]

\* Promise.all: the values of the promises in the order of the promises
CollectResults(calls) == [i \in DOMAIN calls |-> calls[i].result]

NoDout == [kind |-> "none", results |-> <<>>]

\* lines 105-108 up to the await: discover is called for each url in turn, and each
\* call runs to its fetch
DiscoverAll(serverUrls) ==
    /\ dpc = "idle"
    /\ dpc' = "awaiting"
    /\ din' = serverUrls
    /\ dcalls' = [i \in DOMAIN serverUrls |->
                    [pc |-> "fetch", requested |-> AgentCardUrl(serverUrls[i]),
                     fetched |-> NoFetch, body |-> NoBody, seq |-> 0,
                     result |-> NoDiscovered]]
    /\ UNCHANGED dout
    /\ UNCHANGED <<regVars, codecVars, prepVars, submitVars, serveVars, readerVars>>

\* lines 67-77 of call i: its fetch settles; a 2xx answer goes on to read the body
FetchSettles(i, fetched) ==
    /\ dpc = "awaiting"
    /\ dcalls[i].pc = "fetch"
    /\ dcalls' = [dcalls EXCEPT ![i] =
                    IF fetched.kind = "response" /\ fetched.ok
                    THEN [@ EXCEPT !.pc = "json", !.fetched = fetched]
                    ELSE [@ EXCEPT !.pc = "done", !.fetched = fetched,
                                   !.seq = SettledCalls + 1,
                                   !.result = Discover(din[i], fetched, NoBody)]]
    /\ UNCHANGED <<dpc, din, dout>>
    /\ UNCHANGED <<regVars, codecVars, prepVars, submitVars, serveVars, readerVars>>

\* lines 77-99 of call i: response.json() settles
JsonSettles(i, body) ==
    /\ dpc = "awaiting"
    /\ dcalls[i].pc = "json"
    /\ dcalls' = [dcalls EXCEPT ![i] =
                    [@ EXCEPT !.pc = "done", !.body = body,
                              !.seq = SettledCalls + 1,
                              !.result = Discover(din[i], dcalls[i].fetched, body)]]
    /\ UNCHANGED <<dpc, din, dout>>
    /\ UNCHANGED <<regVars, codecVars, prepVars, submitVars, serveVars, readerVars>>

\* lines 106-109: Promise.all settles once every discover call resolved, or as soon
\* as one rejected
DiscoverAllSettles ==
    LET rejected == \E i \in DOMAIN dcalls : dcalls[i].pc = "done" /\ dcalls[i].result.threw
    IN
    /\ dpc = "awaiting"
    /\ rejected \/ \A i \in DOMAIN dcalls : dcalls[i].pc = "done"
    /\ dpc' = IF rejected THEN "threw" ELSE "returned"
    /\ dout' = IF rejected THEN [NoDout EXCEPT !.kind = "threw"]
               ELSE [kind |-> "returned", results |-> CollectResults(dcalls)]
    /\ UNCHANGED <<din, dcalls>>
    /\ UNCHANGED <<regVars, codecVars, prepVars, submitVars, serveVars, readerVars>>

DiscIdle ==
    /\ dpc = "idle"
    /\ din = <<>>
    /\ dcalls = <<>>
    /\ dout = NoDout

(***************************************************************************)
(* shared/contract-reader.ts: the methods of ContractReader called on      *)
(* their own.  contractExists reads the code at an address: the ledger     *)
(* answers '0x' for an address without code, the code's bytes otherwise,   *)
(* or the request fails.                                                   *)
(***************************************************************************)
GetCodeOutcomes ==
    { [ok |-> TRUE, code |-> "0x"], [ok |-> TRUE, code |-> "0x6080"],
      [ok |-> FALSE, code |-> ""] }

\* lines 131-138: a failed getCode is caught and answered with false
ContractExists(outcome) ==
    IF outcome.ok
    THEN [ok |-> TRUE, exists |-> outcome.code # "0x", error |-> ""]
    ELSE [ok |-> TRUE, exists |-> FALSE, error |-> ""]

ReaderMethods ==
    {"getSettlementRouter", "calculateCommitment", "getTokenInfo", "contractExists"}

ReaderAddresses ==
    {"0xHookA", "0xHookB", "0xRouterA", "0xRouterB", "0xToken", "0xPayer", "0xNoCode"}

NoRout ==
    [kind |-> "none", value |-> "", exists |-> FALSE, tokenInfo |-> NoTokenInfo,
     address |-> "", ledgerFailed |-> FALSE]

\* a method of the reader is called: its ledger call is sent and the method awaits it
ReaderCall(method, address) ==
    /\ rpc \in {"idle", "settled"}
    /\ rpc' = "awaiting"
    /\ rin' = [method |-> method, address |-> address]
    /\ rout' = NoRout
    /\ UNCHANGED <<regVars, codecVars, prepVars, submitVars, serveVars, discVars>>

\* lines 57-71: hook.settlementRouter() settles under ledger condition cond
GetSettlementRouterSettles(cond) ==
    LET r == GetSettlementRouter(rin.address, cond) IN
    /\ rpc = "awaiting"
    /\ rin.method = "getSettlementRouter"
    /\ rpc' = "settled"
    /\ rout' = [NoRout EXCEPT !.kind = IF r.ok THEN "returned" ELSE r.error,
                               !.value = r.value, !.address = r.address,
                               !.ledgerFailed = (cond # "deployed")]
    /\ UNCHANGED rin
    /\ UNCHANGED <<regVars, codecVars, prepVars, submitVars, serveVars, discVars>>

\* lines 76-107: router.calculateCommitment(...) settles
CalculateCommitmentSettles(outcome) ==
    LET r == CalculateCommitment(outcome) IN
    /\ rpc = "awaiting"
    /\ rin.method = "calculateCommitment"
    /\ rpc' = "settled"
    /\ rout' = [NoRout EXCEPT !.kind = IF r.ok THEN "returned" ELSE r.error,
                               !.value = r.value, !.ledgerFailed = ~outcome.ok]
    /\ UNCHANGED rin
    /\ UNCHANGED <<regVars, codecVars, prepVars, submitVars, serveVars, discVars>>

\* lines 112-126: Promise.all([token.name(), token.version()]) settles
GetTokenInfoSettles(outcome) ==
    LET r == GetTokenInfo(outcome) IN
    /\ rpc = "awaiting"
    /\ rin.method = "getTokenInfo"
    /\ rpc' = "settled"
    /\ rout' = [NoRout EXCEPT !.kind = IF r.ok THEN "returned" ELSE r.error,
                               !.tokenInfo = r.value, !.ledgerFailed = ~outcome.ok]
    /\ UNCHANGED rin
    /\ UNCHANGED <<regVars, codecVars, prepVars, submitVars, serveVars, discVars>>

\* lines 131-138: provider.getCode(address) settles
ContractExistsSettles(outcome) ==
    LET r == ContractExists(outcome) IN
    /\ rpc = "awaiting"
    /\ rin.method = "contractExists"
    /\ rpc' = "settled"
    /\ rout' = [NoRout EXCEPT !.kind = IF r.ok THEN "returned" ELSE r.error,
                               !.exists = r.exists, !.ledgerFailed = ~outcome.ok]
    /\ UNCHANGED rin
    /\ UNCHANGED <<regVars, codecVars, prepVars, submitVars, serveVars, discVars>>

ReaderIdle ==
    /\ rpc = "idle"
    /\ rin = [method |-> "", address |-> ""]
    /\ rout = NoRout

(***************************************************************************)
(* Specifications.  Spec: the registry.  SpecCodec: the codec functions.   *)
(* SpecPrepare: one prepareTransaction call.  SpecSubmit: one              *)
(* validateSignature or submitTransaction call.  Each leaves the other     *)
(* parts of the state idle.                                                *)
(***************************************************************************)
RegIdle ==
    /\ serverNetwork = "cronos-testnet"
    /\ services = <<>>
    /\ pending = <<>>
    /\ resp = NoResp

OtherIdle == ServeIdle /\ DiscIdle /\ ReaderIdle

Init == RegInit /\ CodecIdle /\ PrepIdle /\ SubmitIdle /\ OtherIdle

Next ==
    \/ \E serviceConfig \in ServiceConfigs : AddServiceCall(serviceConfig)
    \/ \E i \in DOMAIN pending, cond \in LedgerConditions : AddServiceResume(i, cond)

Spec == Init /\ [][Next]_vars

InitCodec == RegIdle /\ CodecInit /\ PrepIdle /\ SubmitIdle /\ OtherIdle

NextCodec == CodecValidate \/ CodecEncode \/ CodecDecode \/ CodecDecodeRaw

SpecCodec == InitCodec /\ [][NextCodec]_vars

InitPrepare == RegIdle /\ CodecIdle /\ PrepInit /\ SubmitIdle /\ OtherIdle

NextPrepare == PrepareTransaction \/ CommitmentSettles \/ TokenInfoSettles

SpecPrepare == InitPrepare /\ [][NextPrepare]_vars

InitSubmit == RegIdle /\ CodecIdle /\ PrepIdle /\ SubmitInit /\ OtherIdle

NextSubmit == ValidateSignatureCall \/ SubmitTransaction \/ SendSettles \/ ReceiptSettles

SpecSubmit == InitSubmit /\ [][NextSubmit]_vars

\* every part idle, the server constructed for cronos-testnet
InitIdle == RegIdle /\ CodecIdle /\ PrepIdle /\ SubmitIdle /\ OtherIdle

\* SpecServe: registrations and the reads of the server between them
NextServe ==
    \/ \E serviceConfig \in ServeConfigs : AddServiceCall(serviceConfig)
    \/ \E i \in DOMAIN pending, cond \in LedgerConditions : AddServiceResume(i, cond)
    \/ \E id \in LookupIds : GetServiceCall(id)
    \/ ListServicesCall
    \/ GetAgentCardCall
    \/ HttpAgentCard
    \/ HttpListServices
    \/ \E id \in LookupIds : HttpGetService(id)

SpecServe == InitIdle /\ [][NextServe]_vars

\* SpecDiscover: one discoverAll call
NextDiscover ==
    \/ \E serverUrls \in UrlLists : DiscoverAll(serverUrls)
    \/ \E i \in DOMAIN dcalls, fetched \in FetchOutcomes : FetchSettles(i, fetched)
    \/ \E i \in DOMAIN dcalls, body \in BodyOutcomes : JsonSettles(i, body)
    \/ DiscoverAllSettles

SpecDiscover == InitIdle /\ [][NextDiscover]_vars

\* SpecReader: calls of the reader's methods, one at a time
NextReader ==
    \/ \E method \in ReaderMethods, address \in ReaderAddresses : ReaderCall(method, address)
    \/ \E cond \in LedgerConditions : GetSettlementRouterSettles(cond)
    \/ \E outcome \in CommitmentOutcomes : CalculateCommitmentSettles(outcome)
    \/ \E outcome \in TokenInfoOutcomes : GetTokenInfoSettles(outcome)
    \/ \E outcome \in GetCodeOutcomes : ContractExistsSettles(outcome)

SpecReader == InitIdle /\ [][NextReader]_vars

(***************************************************************************)
(* Registry claims, checked under Spec.                                    *)
(***************************************************************************)
ReadFailed == resp.kind \in {"ContractNotFoundError", "NetworkError", "thrown"}

\* the fields of a stored record that are copied from the caller's config
CopiedFields == {"id", "title", "hookType", "hookAddress", "network"}

\* C1: when the settlement-router read of a register call fails (no code, revert
\* or transport failure), the call fails with the reader's error and the step
\* leaves the store as it was: get(id) for every id and list() are unchanged.
C1_FailedReadLeavesStore ==
    [][(Len(pending') < Len(pending) /\ resp'.cond # "deployed")
        => /\ resp'.kind \in {"ContractNotFoundError", "NetworkError"}
           /\ services' = services
           /\ \A id \in {"svc-1", "svc-2"} : MapGet(services', id) = MapGet(services, id)
           /\ MapValues(services') = MapValues(services)]_vars

\* C1 witness: a register for an id that already has a record failed at its read
C1_Witness ==
    /\ ReadFailed
    /\ MapHas(services, resp.config.id)
    /\ GetService(resp.config.id).hookAddress # resp.config.hookAddress

\* C2: after a successful register(config), get(config.id) is the record built
\* from config with settlementRouter the address the ledger reported; a record
\* under the same id is replaced without error; list() has one record of that id.
C2_RegisteredRecord ==
    /\ resp.cond = "deployed" => resp.kind = "ok"
    /\ resp.kind = "ok" =>
        LET r == GetService(resp.config.id) IN
        /\ r # Undefined
        /\ \A f \in CopiedFields : r[f] = resp.config[f]
        /\ r.settlementRouter = resp.router
        /\ resp.router = RouterOf(resp.config.hookAddress)
        /\ Cardinality({i \in DOMAIN ListServices :
                          ListServices[i].id = resp.config.id}) = 1

\* C2 witness: a successful register replaced the record stored under its id
C2_Witness ==
    /\ resp.kind = "ok"
    /\ resp.replaced
    /\ Len(services) = 2

\* C3: when two register calls for one id overlap, the record stored after both
\* reads succeeded is the one of the call whose read settled last, whichever was
\* invoked first, and all of its fields come from that one call.
C3_LastCompletionWins ==
    (resp.kind = "ok" /\ resp.rival # "none") =>
        LET r == GetService(resp.config.id) IN
        /\ [f \in CopiedFields |-> r[f]] = [f \in CopiedFields |-> resp.config[f]]
        /\ r.settlementRouter = RouterOf(resp.config.hookAddress)
        /\ r.settlementRouter = RouterOf(r.hookAddress)

\* C3 witness: the call invoked first settled last, after an overlapping call for
\* the same id with another hook address had stored its record
C3_Witness ==
    /\ resp.kind = "ok"
    /\ resp.rival = "later"
    /\ GetService(resp.config.id).hookAddress = resp.config.hookAddress

\* C4: register with any non-empty set of required fields missing fails with
\* ConfigurationError naming exactly the missing fields, before any ledger read
\* is issued and with the registry unchanged.
C4_ConfigurationError ==
    /\ [](resp.kind = "ConfigurationError" =>
            /\ resp.absent # {}
            /\ {resp.missingFields[i] : i \in DOMAIN resp.missingFields} = resp.absent
            /\ Len(resp.missingFields) = Cardinality(resp.absent)
            /\ resp.reads = 0)
    /\ [][(resp'.kind = "ConfigurationError" /\ resp' # resp)
            => (services' = services /\ pending' = pending)]_vars

\* C4 witness: a config with all four required fields missing was rejected while
\* the registry held a record and another call was suspended
C4_Witness ==
    /\ resp.kind = "ConfigurationError"
    /\ Cardinality(resp.absent) = 4
    /\ Len(services) > 0
    /\ Len(pending) > 0

\* C5: a hook address with no code, or whose call reverts, makes register fail
\* with ContractNotFoundError carrying the address, and a transport failure makes
\* it fail with NetworkError; neither is reported as the other kind.
C5_DistinctReadFailures ==
    /\ resp.cond \in {"nocode", "revert"} =>
          (resp.kind = "ContractNotFoundError" /\ resp.address = resp.config.hookAddress)
    /\ resp.cond = "transport" => resp.kind = "NetworkError"

\* C6: the usdcAddress and chainId of every stored record are those of the
\* server's NetworkSettings, whatever the config carried under these names; two
\* configs that differ only in these produce the same record.
C6_NetworkFieldsFromSettings ==
    /\ \A i \in DOMAIN services :
          /\ services[i].value.usdcAddress = NETWORK_CONFIGS[serverNetwork].usdcAddress
          /\ services[i].value.chainId = NETWORK_CONFIGS[serverNetwork].chainId
    /\ resp.kind = "ok" =>
          \A c \in ServiceConfigs :
             (\A f \in CopiedFields \cup {"settlementRouter"} : c[f] = resp.config[f])
             => BuildService(c, resp.router, GetConfig(serverNetwork))
                  = GetService(resp.config.id)

\* C6 witness: a config carrying its own usdcAddress and chainId was registered
C6_Witness ==
    /\ resp.kind = "ok"
    /\ resp.config.usdcAddress = "0xSpoofToken"
    /\ resp.config.chainId = 1

(***************************************************************************)
(* Codec claims, checked under SpecCodec.                                  *)
(***************************************************************************)
\* the address strings that are well-formed
WellFormedAddresses == {AddrLower1, AddrSum1, AddrSum2}

\* the integer sum of the shares of a split list, from its head
RECURSIVE ShareTotal(_)
ShareTotal(items) == IF items = <<>> THEN 0 ELSE Head(items).bips + ShareTotal(Tail(items))

Split(a, b) == [recipient |-> a, bips |-> b]

\* C7: validate(p) is true exactly when p is NftMint/RewardPoints with a
\* well-formed address, or p is TransferSplit whose splits are absent or empty or
\* have only well-formed recipients and shares that sum to exactly 10000
\* (5000+5000 valid, 5000+4999 invalid, one bad recipient invalidates a 10000 list).
C7_ValidateIff ==
    cpc \in {"validated", "encoded", "decoded"} =>
        LET p == cin.params IN
        /\ cout.valid <=>
             \/ p.type = "nft-mint" /\ p.nftContract \in WellFormedAddresses
             \/ p.type = "reward-points" /\ p.rewardToken \in WellFormedAddresses
             \/ /\ p.type = "transfer-split"
                /\ \/ ~p.splits.present
                   \/ p.splits.items = <<>>
                   \/ /\ \A i \in DOMAIN p.splits.items :
                            p.splits.items[i].recipient \in WellFormedAddresses
                      /\ ShareTotal(p.splits.items) = 10000
        /\ p = TransferSplitParams(SomeSplits(<<Split(AddrSum1, 5000), Split(AddrSum2, 5000)>>))
              => cout.valid
        /\ p = TransferSplitParams(SomeSplits(<<Split(AddrSum1, 5000), Split(AddrSum2, 4999)>>))
              => ~cout.valid
        /\ p = TransferSplitParams(SomeSplits(<<Split(AddrSum1, 5000), Split(AddrBadSum, 5000)>>))
              => ~cout.valid

\* C7 witness: validate accepted the 5000+5000 split
C7_Witness ==
    /\ cpc = "validated"
    /\ cin.params.type = "transfer-split"
    /\ cin.params.splits.items = <<Split(AddrSum1, 5000), Split(AddrSum2, 5000)>>
    /\ cout.valid

\* two address strings that denote the same 20-byte address
SameAddress(a, b) ==
    GetAddress(a).ok /\ GetAddress(b).ok /\ GetAddress(a).value = GetAddress(b).value

\* C8: for every hook variant and every p that validate accepts,
\* decode(kind, encode(kind, p)) equals p (tag, address, splits in order with
\* their shares), except that TransferSplit with empty or absent splits comes
\* back with absent splits.
C8_RoundTrip ==
    (cin.hookType = cin.params.type /\ cout.valid) =>
        LET p == cin.params IN
        /\ cpc \in {"encoded", "decoded"} => cout.encoded.ok
        /\ cpc = "decoded" =>
             /\ cout.decoded.ok
             /\ LET q == cout.decoded.value IN
                /\ q.type = p.type
                /\ p.type = "nft-mint" => SameAddress(q.nftContract, p.nftContract)
                /\ p.type = "reward-points" => SameAddress(q.rewardToken, p.rewardToken)
                /\ p.type = "transfer-split" =>
                     IF SplitsEmpty(p.splits) THEN q.splits = NoSplits
                     ELSE /\ q.splits.present
                          /\ Len(q.splits.items) = Len(p.splits.items)
                          /\ \A i \in DOMAIN p.splits.items :
                               /\ SameAddress(q.splits.items[i].recipient,
                                              p.splits.items[i].recipient)
                               /\ q.splits.items[i].bips = p.splits.items[i].bips

\* C9: decode of an empty payload ('0x' or '') fails for NftMint and RewardPoints
\* and returns TransferSplit with no splits for TransferSplit; it never returns an
\* NftMint or RewardPoints value.
C9_DecodeEmptyPayload ==
    (cpc \in {"decoded", "rawdecoded"} /\ cout.hookData \in {Hex0x, HexEmpty}) =>
        /\ cin.hookType \in {"nft-mint", "reward-points"} => ~cout.decoded.ok
        /\ cin.hookType = "transfer-split" =>
              /\ cout.decoded.ok
              /\ cout.decoded.value.type = "transfer-split"
              /\ ~cout.decoded.value.splits.present
        /\ cout.decoded.ok => cout.decoded.value.type = "transfer-split"

\* C9 witness: decode('transfer-split', '') returned a value without splits
C9_Witness ==
    /\ cpc = "rawdecoded"
    /\ cout.hookData = HexEmpty
    /\ cin.hookType = "transfer-split"
    /\ cout.decoded.ok

(***************************************************************************)
(* Preparer claims, checked under SpecPrepare.                             *)
(***************************************************************************)
\* C10: when the hook type of the service differs from the tag of the hook
\* params (all six pairs), prepare fails at the encoding step: no ledger read is
\* sent and no PreparedTransaction is returned.
C10_MismatchFailsAtEncoding ==
    (pin.params.service.hookType # pin.params.hookDataParams.type /\ ppc # "start") =>
        /\ ppc = "failed"
        /\ pout.step = "encode"
        /\ pcalls = <<>>
        /\ pout.prepared = Undefined

\* the payload encodes a split list whose shares sum to exactly 10000
EncodesFullSplit(hookData) ==
    /\ AbiDecodeSplits(hookData).ok
    /\ ShareTotal(AbiDecodeSplits(hookData).value) = 10000

\* C11: every PreparedTransaction returned for a transfer-split service has hook
\* data that is empty or encodes a split list whose shares sum to exactly 10000;
\* prepare given a non-empty split list of any other sum returns nothing.
C11_PreparedSplitsSumTo10000 ==
    LET p == pin.params.hookDataParams IN
    /\ (pout.kind = "ok" /\ pin.params.service.hookType = "transfer-split") =>
          \/ pout.prepared.hookData = Hex0x
          \/ EncodesFullSplit(pout.prepared.hookData)
    /\ (/\ pin.params.service.hookType = "transfer-split"
        /\ p.type = "transfer-split"
        /\ ~SplitsEmpty(p.splits)
        /\ ShareTotal(p.splits.items) # 10000) => pout.kind # "ok"

\* C17: in every PreparedTransaction returned, validAfter = 0 and validBefore =
\* (unix time in seconds at the call) + validitySeconds for every validitySeconds
\* the caller gave, 0 included; 3600 is used only when none was given.
C17_ValidityWindow ==
    pout.kind = "ok" =>
        LET given == pin.params.validitySeconds IN
        /\ pout.prepared.params.validAfter = 0
        /\ pout.prepared.params.validBefore =
              pin.now + (IF given.absent THEN 3600 ELSE given.value)

Chars(a, b, c) == <<a, b, c>>

\* C18: prepare converts paymentAmount and facilitatorFee ("0" when not given) to
\* the decimal value times 10^6 ("0.1" gives 100000, "1" gives 1000000), and an
\* amount with a non-zero digit beyond the sixth fractional place ("0.0000001")
\* makes prepare fail without any ledger read.
C18_AmountsScaledBySixDecimals ==
    LET amount == pin.params.paymentAmount
        fee == pin.params.facilitatorFee
        parsed == ppc \in {"awaitCommitment", "awaitTokenInfo", "returned"}
    IN
    /\ (parsed /\ amount = Chars("0", ".", "1")) => plocal.value = 100000
    /\ (parsed /\ amount = <<"1">>) => plocal.value = 1000000
    /\ (parsed /\ fee.absent) => plocal.fee = 0
    /\ (parsed /\ fee = Given(Chars("0", ".", "5"))) => plocal.fee = 500000
    /\ pout.kind = "ok" =>
          /\ pout.prepared.params.value = plocal.value
          /\ pout.prepared.params.facilitatorFee = plocal.fee
    /\ (ppc # "start" /\ amount = <<"0", ".", "0", "0", "0", "0", "0", "0", "1">>) =>
          /\ ppc = "failed"
          /\ pout.kind = "Error"
          /\ pcalls = <<>>

\* C18 witness: "0.1" with no fee was prepared as 100000 and 0
C18_Witness ==
    /\ pout.kind = "ok"
    /\ pin.params.paymentAmount = Chars("0", ".", "1")
    /\ pin.params.facilitatorFee.absent
    /\ pout.prepared.params.value = 100000
    /\ pout.prepared.params.facilitatorFee = 0

\* a decimal string: digits with at most one point and at least one digit, no sign
WellFormedDecimal(s) ==
    /\ \A i \in DOMAIN s : IsDigit(s[i]) \/ s[i] = "."
    /\ Cardinality({i \in DOMAIN s : s[i] = "."}) <= 1
    /\ \E i \in DOMAIN s : IsDigit(s[i])

\* C19: every amount and fee the parsing step accepts is a well-formed decimal
\* string with a non-negative scaled value; a malformed string (an empty string
\* given as facilitatorFee included) or a negative value makes prepare fail at the
\* parsing step, before any ledger read.
C19_ParsingRejectsMalformed ==
    LET amount == pin.params.paymentAmount
        fee == pin.params.facilitatorFee
        encoded == Encode(pin.params.service.hookType, pin.params.hookDataParams).ok
        acceptable == /\ WellFormedDecimal(amount)
                      /\ fee.absent \/ WellFormedDecimal(fee.value)
    IN
    (ppc # "start" /\ encoded) =>
        IF acceptable
        THEN ~(ppc = "failed" /\ pout.step = "parse")
        ELSE ppc = "failed" /\ pout.step = "parse" /\ pcalls = <<>>

\* C20: in every PreparedTransaction returned: the domain has the name and version
\* the token-info read returned, chainId = service.chainId and verifyingContract =
\* service.usdcAddress; message.from is the payer; message.to = routerAddress =
\* service.settlementRouter; message.nonce = nonce = the value the commitment read
\* returned; message.value, validAfter and validBefore are the decimal strings of
\* params.value, params.validAfter and params.validBefore.
C20_TypedDataFields ==
    pout.kind = "ok" =>
        LET prepared == pout.prepared
            domain == prepared.typedData.domain
            message == prepared.typedData.message
            service == pin.params.service
        IN
        /\ domain.name = plocal.tokenInfo.name
        /\ domain.version = plocal.tokenInfo.version
        /\ domain.chainId = service.chainId
        /\ domain.verifyingContract = service.usdcAddress
        /\ message.from = pin.params.payerAddress
        /\ prepared.params.from = pin.params.payerAddress
        /\ message.to = service.settlementRouter
        /\ prepared.routerAddress = service.settlementRouter
        /\ message.nonce = plocal.nonce
        /\ prepared.nonce = plocal.nonce
        /\ WellFormedDecimal(message.value)
        /\ WellFormedDecimal(message.validAfter)
        /\ WellFormedDecimal(message.validBefore)
        /\ DigitsValue(message.value) = prepared.params.value
        /\ DigitsValue(message.validAfter) = prepared.params.validAfter
        /\ DigitsValue(message.validBefore) = prepared.params.validBefore

\* C20 witness: a PreparedTransaction was returned for a named token and a
\* commitment, with a non-zero value
C20_Witness ==
    /\ pout.kind = "ok"
    /\ plocal.tokenInfo.name = "Bridged USDC"
    /\ plocal.nonce = "0xCommitment2"
    /\ pout.prepared.params.value = 1000000
    /\ pout.prepared.typedData.message.nonce = "0xCommitment2"

(***************************************************************************)
(* Submitter claims, checked under SpecSubmit.                             *)
(***************************************************************************)
HexAlphabet ==
    {"0", "1", "2", "3", "4", "5", "6", "7", "8", "9",
     "a", "b", "c", "d", "e", "f", "A", "B", "C", "D", "E", "F"}

\* '0x' followed by exactly 130 characters of the hex alphabet
ShapeValid(sig) ==
    /\ Len(sig) = 2 + 130
    /\ sig[1] = "0"
    /\ sig[2] = "x"
    /\ \A i \in 3..Len(sig) : sig[i] \in HexAlphabet

\* C12: validateSignature(sig) is true exactly when sig is '0x' followed by
\* exactly 130 characters each in 0-9, a-f or A-F; any other length, a missing or
\* different prefix, or a non-hex character after the prefix is invalid.
C12_SignatureShape ==
    spc = "validated" => (sout.valid <=> ShapeValid(sin.signature))

\* C12 witness: a 132-character signature with digits, lower-case and upper-case
\* hex characters was judged valid
C12_Witness ==
    /\ spc = "validated"
    /\ sin.signature = SigMixed
    /\ sout.valid

\* C13: submit with a signature that fails the shape test raises SignatureError
\* without any ledger interaction: no signer or contract is set up and no
\* settlement call is sent, whatever the prepared transaction and the key.
C13_BadSignatureNoLedger ==
    (spc \notin {"start", "validated"} /\ ~ShapeValid(sin.signature)) =>
        /\ spc = "failed"
        /\ sout.kind = "SignatureError"
        /\ ~slocal.signer
        /\ slocal.router = ""
        /\ ~slocal.receipt.present
        /\ scalls = <<>>

\* C13 witness: a signature one character short was rejected by submit
C13_Witness ==
    /\ spc = "failed"
    /\ sout.kind = "SignatureError"
    /\ Len(sin.signature) = 131
    /\ sin.signerPrivateKey = "0xPrivateKey"

\* C14: for a shape-valid signature, the one settlement call submit sends goes to
\* prepared.routerAddress and carries token, from, value, validAfter, validBefore,
\* payTo, facilitatorFee and hook of prepared.params, nonce = prepared.nonce, the
\* given signature, prepared.salt and prepared.hookData, each unaltered.
C14_SettlementCallForwardsPrepared ==
    /\ Len(scalls) <= 1
    /\ spc \in {"awaitSend", "awaitReceipt", "returned"} => Len(scalls) = 1
    /\ \A i \in DOMAIN scalls :
          LET call == scalls[i]
              prepared == sin.prepared
          IN
          /\ ShapeValid(sin.signature)
          /\ call.fn = "settleAndExecute"
          /\ call.to = prepared.routerAddress
          /\ call.args.token = prepared.params.token
          /\ call.args.from = prepared.params.from
          /\ call.args.value = prepared.params.value
          /\ call.args.validAfter = prepared.params.validAfter
          /\ call.args.validBefore = prepared.params.validBefore
          /\ call.args.nonce = prepared.nonce
          /\ call.args.signature = sin.signature
          /\ call.args.salt = prepared.salt
          /\ call.args.payTo = prepared.params.payTo
          /\ call.args.facilitatorFee = prepared.params.facilitatorFee
          /\ call.args.hook = prepared.params.hook
          /\ call.args.hookData = prepared.hookData

\* C14 witness: the settlement call for the second prepared transaction was sent
C14_Witness ==
    /\ spc = "awaitReceipt"
    /\ Len(scalls) = 1
    /\ scalls[1].to = "0xRouterB"
    /\ scalls[1].args.nonce = "0xCommitment2"
    /\ scalls[1].args.salt = "0xSalt2"

\* C15: on success the events of the result are as many as the logs of the
\* receipt, event i standing for log i; a log that matches no known event, or
\* whose parsing throws, gives {name: 'Unknown', args: {}} at its place, is never
\* dropped and never aborts the submit.
C15_EventsMatchLogs ==
    /\ slocal.receipt.present => (spc = "returned" /\ sout.kind = "ok")
    /\ spc = "returned" =>
          LET logs == slocal.receipt.logs
              events == sout.result.events
          IN
          /\ Len(events) = Len(logs)
          /\ \A i \in DOMAIN logs :
                IF /\ logs[i].topics # <<>>
                   /\ \E fragment \in RouterEventFragments :
                         fragment.topicHash = logs[i].topics[1]
                THEN events[i].name # "Unknown"
                ELSE events[i] = [name |-> "Unknown", args |-> "{}"]

\* C15 witness: a receipt with a log without topics and a log of another contract
\* gave two events
C15_Witness ==
    /\ spc = "returned"
    /\ Len(slocal.receipt.logs) = 2
    /\ slocal.receipt.logs[1].topics = <<>>
    /\ slocal.receipt.logs[2].topics # <<>>
    /\ Len(sout.result.events) = 2

\* r occurs in message as reason="r"
NamesReason(message, r) ==
    \E i \in DOMAIN message :
        /\ i + Len(r) + 8 <= Len(message)
        /\ SubSeq(message, i, i + Len(r) + 8) = <<"r", "e", "a", "s", "o", "n", "=", "\"">> \o r \o <<"\"">>

\* C16: submit reports a ledger failure only by raising: when sending the call or
\* waiting for the receipt fails it raises TransactionError, whose revertReason is
\* the text captured from reason="..." in the failure message when that pattern
\* is present and absent otherwise; every result returned has success = true and
\* no error field.
C16_FailureRaisesTransactionError ==
    /\ sout.failedAt \in {"send", "wait"} =>
          /\ spc = "failed"
          /\ sout.kind = "TransactionError"
          /\ ~sout.result.present
          /\ sout.message = MsgReverted => sout.revertReason = Given(<<"E", "x", "p", "i", "r", "e", "d">>)
          /\ sout.message \in {MsgRevertedNull, MsgTimeout, MsgUnterminated} =>
                sout.revertReason = Absent
          /\ sout.message = MsgEmptyThenReason => sout.revertReason = Given(<<"P", "a", "u", "s", "e", "d">>)
          /\ ~sout.revertReason.absent =>
                /\ sout.revertReason.value # <<>>
                /\ \A k \in DOMAIN sout.revertReason.value :
                      sout.revertReason.value[k] # "\""
                /\ NamesReason(sout.message, sout.revertReason.value)
    /\ sout.result.present =>
          /\ spc = "returned"
          /\ sout.result.success
          /\ sout.result.error = Absent
    /\ spc = "returned" => sout.result.present

\* C16 witness: waiting for the receipt failed with a message that names a reason
C16_Witness ==
    /\ spc = "failed"
    /\ sout.failedAt = "wait"
    /\ sout.message = MsgReverted
    /\ sout.kind = "TransactionError"
    /\ ~sout.revertReason.absent

(***************************************************************************)
(* Preparer claims about the two ledger reads, checked under SpecPrepare.  *)
(***************************************************************************)
\* the reads of one kind among those sent
ReadsOf(fn) == {i \in DOMAIN pcalls : pcalls[i].fn = fn}

\* C21: the commitment of every returned PreparedTransaction was computed over
\* the values the same result carries: the ten arguments of the commitment read
\* equal params, salt and hookData of the result, and the read went to the
\* result's routerAddress.
C21_CommitmentOverReturnedValues ==
    pout.kind = "ok" =>
        LET prepared == pout.prepared IN
        \E i \in ReadsOf("calculateCommitment") :
            LET read == pcalls[i] IN
            /\ read.to = prepared.routerAddress
            /\ read.args.token = prepared.params.token
            /\ read.args.from = prepared.params.from
            /\ read.args.value = prepared.params.value
            /\ read.args.validAfter = prepared.params.validAfter
            /\ read.args.validBefore = prepared.params.validBefore
            /\ read.args.salt = prepared.salt
            /\ read.args.payTo = prepared.params.payTo
            /\ read.args.facilitatorFee = prepared.params.facilitatorFee
            /\ read.args.hook = prepared.params.hook
            /\ read.args.hookData = prepared.hookData

\* C21 witness: a PreparedTransaction with a split payload, a fee and the second
\* salt was returned
C21_Witness ==
    /\ pout.kind = "ok"
    /\ pout.prepared.salt = "0xSalt2"
    /\ pout.prepared.hookData # Hex0x
    /\ pout.prepared.params.facilitatorFee = 500000
    /\ Len(pcalls) = 2

\* C22: prepare sends at most one commitment read and at most one token-info
\* read, returns a PreparedTransaction only after both have succeeded, and fails
\* with the reader's error when either fails.
C22_ReadsOnceNoRetry ==
    /\ Cardinality(ReadsOf("calculateCommitment")) <= 1
    /\ Cardinality(ReadsOf("getTokenInfo")) <= 1
    /\ Len(pcalls) <= 2
    /\ pout.kind = "ok" =>
          /\ Cardinality(ReadsOf("calculateCommitment")) = 1
          /\ Cardinality(ReadsOf("getTokenInfo")) = 1
          /\ \A i \in DOMAIN pcalls : pcalls[i].outcome = "ok"
    /\ (\E i \in DOMAIN pcalls : pcalls[i].outcome = "failed") =>
          /\ ppc = "failed"
          /\ pout.kind = "NetworkError"
          /\ pout.prepared = Undefined
          /\ pcalls[Len(pcalls)].outcome = "failed"

\* C22 witness: the token-info read failed after the commitment read succeeded
C22_Witness ==
    /\ ppc = "failed"
    /\ Len(pcalls) = 2
    /\ pcalls[1].outcome = "ok"
    /\ pcalls[2].outcome = "failed"
    /\ pout.kind = "NetworkError"

\* C27: the two reads are strictly sequenced: the token-info read is sent only
\* after the commitment read succeeded, so a failed commitment read is followed by
\* no token-info read; neither read is sent unless the hook encoding and both
\* amount parses succeeded.
C27_ReadsSequenced ==
    /\ \A i \in ReadsOf("getTokenInfo") :
          /\ i = 2
          /\ pcalls[1].fn = "calculateCommitment"
          /\ pcalls[1].outcome = "ok"
    /\ (pcalls # <<>> /\ pcalls[1].outcome = "failed") => Len(pcalls) = 1
    /\ pcalls # <<>> =>
          /\ pcalls[1].fn = "calculateCommitment"
          /\ Encode(pin.params.service.hookType, pin.params.hookDataParams).ok
          /\ ParseUnits(pin.params.paymentAmount, 6).ok
          /\ ParseUnits(IF pin.params.facilitatorFee.absent \/ pin.params.facilitatorFee.value = <<>>
                        THEN <<"0">> ELSE pin.params.facilitatorFee.value, 6).ok

\* C27 witness: the commitment read failed and nothing was sent after it
C27_Witness ==
    /\ ppc = "failed"
    /\ Len(pcalls) = 1
    /\ pcalls[1].outcome = "failed"
    /\ pout.step = "commitment"

(***************************************************************************)
(* Further codec and submitter claims.                                     *)
(***************************************************************************)
\* C29: every transfer-split value that validate accepts can be encoded: when
\* validate is true with non-empty splits, every share is in 0..65535 and encode
\* does not fail; a list such as [{A, 70000}, {B, -60000}] is not accepted.
C29_ValidatedSharesFitUint16 ==
    LET p == cin.params IN
    (/\ cpc \in {"validated", "encoded", "decoded"}
     /\ cout.valid
     /\ p.type = "transfer-split"
     /\ ~SplitsEmpty(p.splits)) =>
        /\ \A i \in DOMAIN p.splits.items : p.splits.items[i].bips \in 0..65535
        /\ (cpc \in {"encoded", "decoded"} /\ cin.hookType = "transfer-split") =>
              cout.encoded.ok

\* C30: the router interface that submit parses logs against declares two
\* functions and no event, so every event of every result submit returns is
\* {name: 'Unknown', args: {}}, whatever logs the receipt has.
C30_EveryEventUnknown ==
    spc = "returned" =>
        /\ Len(sout.result.events) = Len(slocal.receipt.logs)
        /\ \A i \in DOMAIN sout.result.events :
              /\ sout.result.events[i].name = "Unknown"
              /\ sout.result.events[i].args = "{}"

\* C30 witness: a receipt whose first log carries one topic and whose second log
\* carries two gave two events named Unknown
C30_Witness ==
    /\ spc = "returned"
    /\ Len(slocal.receipt.logs) = 2
    /\ Len(slocal.receipt.logs[1].topics) = 1
    /\ Len(slocal.receipt.logs[2].topics) = 2
    /\ sout.result.events[1].name = "Unknown"
    /\ sout.result.events[2].name = "Unknown"

(***************************************************************************)
(* Registry, reader and discovery claims.                                  *)
(***************************************************************************)
\* C28: every stored record is consistent about its network: its network names
\* an entry of the network table, and its chainId and usdcAddress are the
\* values of that entry.
C28_RecordMatchesOwnNetwork ==
    \A i \in DOMAIN services :
        LET service == services[i].value IN
        /\ service.network \in CronosNetworks
        /\ service.chainId = NETWORK_CONFIGS[service.network].chainId
        /\ service.usdcAddress = NETWORK_CONFIGS[service.network].usdcAddress

\* C24: a method of the reader whose ledger call failed ends with a typed error
\* (ContractNotFoundError, NetworkError or TransactionError), never with a
\* normal return value.
C24_FailedCallRaisesTyped ==
    (rpc = "settled" /\ rout.ledgerFailed) =>
        rout.kind \in {"ContractNotFoundError", "NetworkError", "TransactionError"}

\* C23: discoverAll never throws; it returns one result per url, result i for
\* url i, whatever the order in which the answers arrived.  The result of a
\* server that failed (fetch rejected, status not 2xx, body not JSON) has a
\* non-empty error and no services; the result of a healthy server has the
\* services of the card that server sent and no error.  Each result depends on
\* the answers of its own server only.
C23_DiscoverAllIndependent ==
    /\ dpc # "threw"
    /\ dpc = "returned" =>
          /\ dout.kind = "returned"
          /\ Len(dout.results) = Len(din)
          /\ \A i \in DOMAIN din :
                LET r == dout.results[i]
                    c == dcalls[i]
                    healthy == /\ c.fetched.kind = "response"
                               /\ c.fetched.ok
                               /\ c.body.kind = "json"
                IN
                /\ r.serverUrl = din[i]
                /\ c.requested.base = din[i].base
                /\ healthy => /\ r.services = c.body.card.services
                              /\ r.agentCard = c.body.card
                              /\ ~r.hasError
                /\ ~healthy => /\ r.hasError
                               /\ r.error # ""
                               /\ r.services = <<>>
                               /\ r.agentCard = EmptyCard(din[i])

\* C23 witness: three urls, the second answered with a status that is not 2xx,
\* the other two with cards; the third call settled first
C23_Witness ==
    /\ dpc = "returned"
    /\ Len(din) = 3
    /\ dcalls[3].seq = 1
    /\ dcalls[2].fetched.kind = "response" /\ ~dcalls[2].fetched.ok
    /\ dout.results[2].hasError
    /\ ~dout.results[1].hasError /\ dout.results[1].services # <<>>
    /\ ~dout.results[3].hasError
    /\ din[1] # din[3]

\* a step in which a register call completed with success
Registered == resp'.kind = "ok" /\ Len(pending') < Len(pending)

Keys(m) == [i \in DOMAIN m |-> m[i].key]

\* C25: list() returns every stored record once, in the order in which the ids
\* were first registered with success: a successful register of a new id adds
\* its record at the end, a successful register of a stored id replaces the
\* record where it is, and no other step changes the sequence, so two list()
\* calls with no successful register between them answer the same sequence; the
\* agent card's services are that sequence too.
C25_ListInRegistrationOrder ==
    /\ [](\A i, j \in DOMAIN services : services[i].key = services[j].key => i = j)
    /\ [][/\ IF Registered
             THEN LET id == resp'.config.id IN
                  /\ Keys(services') = IF MapHas(services, id) THEN Keys(services)
                                       ELSE Append(Keys(services), id)
                  /\ \A i \in DOMAIN services :
                        services[i].key # id => services'[i] = services[i]
                  /\ MapHas(services', id)
             ELSE services' = services
          /\ (reply' # reply /\ reply'.op = "listServices") =>
                /\ reply'.services = MapValues(services')
                /\ Len(reply'.services) = Len(services)
          /\ (reply' # reply /\ reply'.op \in {"getAgentCard", "GET /.well-known/agent.json"}) =>
                reply'.card.services = MapValues(services')
       ]_vars

\* C25 witness: svc-1 was registered first, svc-2 second, then svc-1 again with
\* another hook; the list answered after that has the new svc-1 record first
C25_Witness ==
    /\ Len(services) = 2
    /\ resp.kind = "ok" /\ resp.replaced
    /\ resp.config.id = services[1].key
    /\ services[1].value.hookAddress = "0xHookB"
    /\ services[2].value.hookAddress = "0xHookA"
    /\ reply.op = "listServices"
    /\ reply.services = ListServices

\* C26: a stored record changes only in a step in which a register call with
\* its id completed with success; every other step (a read by method or by
\* route, a failed register, a register of another id) leaves it as it is, and
\* no step removes it.
C26_RecordChangesOnlyByOwnRegister ==
    [][\A id \in {c.id : c \in ServeConfigs} :
          MapHas(services, id) =>
             /\ MapHas(services', id)
             /\ MapGet(services', id) # MapGet(services, id) =>
                   Registered /\ resp'.config.id = id
      ]_vars

\* C26 witness: svc-1 is stored, the last register to settle was one of svc-1
\* that failed, and the route of svc-1 answered 200 after it
C26_Witness ==
    /\ MapHas(services, "svc-1")
    /\ MapHas(services, "svc-2")
    /\ resp.kind \in {"ContractNotFoundError", "NetworkError"}
    /\ resp.config.id = "svc-1"
    /\ reply.op = "GET /api/x402/services/:id"
    /\ reply.id = "svc-1"
    /\ reply.status = 200
    /\ reply.responses[1].service = GetService("svc-1")

====
